---- MODULE Spec2Model ----
(***************************************************************************)
(* Slot ledger and booking life cycle of the salon booking backend         *)
(* (src/src/routes/bookings.ts, src/src/routes/salons.ts, the access       *)
(* policy of the auth middleware).                                         *)
(*                                                                         *)
(* Every HTTP handler is run by a request process.  A handler that reads   *)
(* the store, checks, and then writes in a later await is one step under   *)
(* Spec, where requests execute one at a time, and two steps under         *)
(* ConcSpec: the Begin step (the lookups and every check up to the write)  *)
(* and the Commit step (the prisma.$transaction / update), and the steps   *)
(* of the request processes interleave.                                    *)
(*                                                                         *)
(* WideSpec is Spec's booking handlers on a store of three slots and two   *)
(* services.  GenSpec is slot generation (its day loop step by step, its   *)
(* createMany against the unique index), for several operating-hours maps  *)
(* and server time zones.  DeleteSpec interleaves create, cancel and       *)
(* delete-slot requests.  PolicySpec applies the three access checks to    *)
(* every payload.  NotifySpec is create with its confirmation task, in     *)
(* every deployment of the server.  CatalogSpec is the management of a     *)
(* salon's services and slots, and RolesSpec the management of role rows.  *)
(* SlotRaceSpec is DeleteSpec with reschedule requests.  TenantSpec runs   *)
(* the booking and delete-slot handlers on two salons.  StaffSpec is the   *)
(* removal of salon memberships (src/src/routes/router.index.ts),          *)
(* PaymentSpec the status update of salon payments                         *)
(* (src/src/routes/salonPayment.ts) and OtpSpec the verification of an OTP *)
(* session (src/src/routes/auth.ts), each with its awaits as steps.        *)
(*                                                                         *)
(* response is what the handler that finished last sent: "ok" for every    *)
(* 2xx body, otherwise the error: the message of createError, with the 403 *)
(* messages written "Forbidden" and the three status guards                *)
(* (bookings.ts:274, 324, 378) written "Invalid status".                   *)
(*                                                                         *)
(* Requests reach the booking handlers only through authMiddleware, so     *)
(* every actor is an authenticated user whose profile row exists (anon,    *)
(* who sends no token, reaches the optionalAuth routes only); request      *)
(* bodies are well formed (zod accepts them) and name existing salons,     *)
(* services and slots.  A booking id may name no booking.                  *)
(***************************************************************************)
EXTENDS Integers, Sequences, FiniteSets, Bags, TLC

\* ---------------------------------------------------------------- bounds
MaxBookings == 2
MaxCapacity == 2
\* No status request starts once a due date is past this month.
MaxDueMonth == 2

\* ------------------------------------------------------------- universes
Procs == {"p1", "p2"}
Salons == {"s1"}
Services == {"v1"}
Slots == {"t1", "t2"}
Actors == {"u1", "u2", "m1", "sa"}
\* a1 is the salon admin of s1; anon sends no bearer token (optionalAuth
\* lets the request through without req.user).
Principals == Actors \cup {"a1", "anon"}
\* The actors that place bookings.
Customers == {"u1"}
\* The actors whose requests run concurrently.
ConcActors == {"u1", "m1"}
BookingIds == 1..MaxBookings

\* The larger store of WideSpec: a third slot and a second service.
WideSlots == Slots \cup {"t3"}
WideServices == Services \cup {"v2"}

\* A slot and a service of the other salon, s2.
ForeignSlots == {"x1"}
ForeignServices == {"w1"}

\* The ids of the service rows POST /:salonId/services creates.
NewServices == {"v8", "v9"}

NoId == "none"

SalonStatuses == {"pending", "approved", "rejected", "suspended"}
BookingStatuses == {"booked", "in_progress", "completed", "cancelled", "no_show"}

\* The Role enum.
RoleNames == {"super_admin", "salon_admin", "salon_staff", "user"}

\* The users that hold a token; a2 is the salon admin the seed creates
\* (seed.ts:25-36, 66-71): a salon_admin role row and an admin membership.
TokenHolders == (Principals \ {"anon"}) \cup {"a2"}

\* JWT payload of each actor: roles and salonMemberships.
roles ==
  [a \in TokenHolders |->
     IF a = "sa" THEN {"super_admin", "user"}
     ELSE IF a = "a2" THEN {"salon_admin"}
     ELSE {"user"}]

salonMemberships ==
  [a \in TokenHolders |->
     IF a = "m1" THEN {[salonId |-> "s1", role |-> "salon_staff"]}
     ELSE IF a = "u2" THEN {[salonId |-> "s2", role |-> "salon_admin"]}
     ELSE IF a \in {"a1", "a2"}
       THEN {[salonId |-> "s1", role |-> "salon_admin"]}
     ELSE {}]

\* The user_roles rows behind the payloads.
InitialRoles ==
  {ur \in TokenHolders \X RoleNames : ur[2] \in roles[ur[1]]}

\* The salon_memberships rows behind the payloads (auth.ts:201-227 copies
\* them into the token at login); the id stands for the row's key.
MembershipRow(a, m) ==
  [id |-> <<a, m.salonId>>, userId |-> a, salonId |-> m.salonId,
   role |-> m.role]

InitialMemberships ==
  UNION {{MembershipRow(a, m) : m \in salonMemberships[a]} :
           a \in TokenHolders}

\* req.user: the decoded payload, or nothing when no valid token came.
NoUser == [authenticated |-> FALSE, roles |-> {}, salonMemberships |-> {}]

reqUser(a) ==
  IF a = "anon" THEN NoUser
  ELSE [authenticated |-> TRUE, roles |-> roles[a],
        salonMemberships |-> salonMemberships[a]]

\* salon_id column of the slot and service rows (never updated).
slotSalon ==
  [t \in Slots \cup ForeignSlots |-> IF t \in ForeignSlots THEN "s2" ELSE "s1"]
serviceSalon ==
  [v \in Services \cup NewServices \cup ForeignServices |->
     IF v \in ForeignServices THEN "s2" ELSE "s1"]

VARIABLES
  salonStatus,    \* salons.status
  serviceActive,  \* services.is_active
  slots,          \* slots.capacity, slots.booked_count
  bookings,       \* the booking rows, in creation order (the index is the id)
  pc,             \* where each request process is in its handler
  req,            \* the local variables of the handler a process runs
  response,       \* the response the most recent handler to finish sent
  operatingHours, \* salons.operating_hours: weekday name -> { open, close, closed }
  tzOffset,       \* minutes the server's local time is ahead of UTC
  slotRows,       \* the slot rows slot generation inserted (a bag of rows)
  slotDeleted,    \* the ids of the slot rows that were deleted
  notifications,  \* the confirmation tasks started, in order, and their state
  deployment,     \* NODE_ENV and TWILIO_PHONE_NUMBER of the server process
  catalog,        \* the ids of the service rows that exist
  userRoles,      \* the user_roles rows: <<userId, role>>
  memberships,    \* the salon_memberships rows
  payments,       \* the salon_payments rows, by id
  nextDueDate,    \* salons.next_due_date
  otpSession,     \* the otp_sessions row of one session token
  users,          \* the phones that have a user row
  history         \* what the handlers did so far (no row stores it)

vars ==
  <<salonStatus, serviceActive, slots, bookings, pc, req, response,
    operatingHours, tzOffset, slotRows, slotDeleted,
    notifications, deployment, catalog, userRoles,
    memberships, payments, nextDueDate, otpSession, users, history>>
store == <<salonStatus, serviceActive, slots, bookings>>
calendar == <<operatingHours, tzOffset, slotRows>>
outbox == <<notifications, deployment>>
registry == <<catalog, userRoles>>
office == <<memberships, payments, nextDueDate>>
identity == <<otpSession, users>>
accounts == <<office, identity, history>>

NoReq == [op |-> "none"]

\* ---------------------------------------------------------- access policy
\* The three checks of the auth middleware on a payload.
\* req.user?.roles?.includes('super_admin') ?? false
userIsSuperAdmin(user) == user.authenticated /\ "super_admin" \in user.roles

\* Faulty variant of the admin check: the membership's salon is not compared.
userIsSalonAdminAnywhere(user, salonId) ==
  \/ userIsSuperAdmin(user)
  \/ /\ user.authenticated
     /\ \E m \in user.salonMemberships : m.role = "salon_admin"

userIsSalonAdmin(user, salonId) ==
  \/ userIsSuperAdmin(user)
  \/ /\ user.authenticated
     /\ \E m \in user.salonMemberships :
          m.salonId = salonId /\ m.role = "salon_admin"

userIsSalonStaff(user, salonId) ==
  \/ userIsSuperAdmin(user)
  \/ /\ user.authenticated
     /\ \E m \in user.salonMemberships : m.salonId = salonId

\* The same checks on the request of actor a.
isSuperAdmin(a) == userIsSuperAdmin(reqUser(a))

isSalonAdmin(a, s) == userIsSalonAdmin(reqUser(a), s)

\* Faulty variant of the staff check: a membership of any salon counts.
isStaffSomewhere(a, s) ==
  \/ isSuperAdmin(a)
  \/ reqUser(a).salonMemberships # {}

isSalonStaff(a, s) == userIsSalonStaff(reqUser(a), s)

\* ------------------------------------------------------------ responses
\* The handler of process p ends with the response code.
Reply(p, code) ==
  /\ pc' = [pc EXCEPT ![p] = "idle"]
  /\ req' = [req EXCEPT ![p] = NoReq]
  /\ response' = code
  /\ UNCHANGED <<calendar, slotDeleted>>

\* ... and it started no notification and wrote no service or role row.
Respond(p, code) ==
  /\ Reply(p, code)
  /\ UNCHANGED <<outbox, registry, accounts>>

Await(p, label, r) ==
  /\ pc' = [pc EXCEPT ![p] = label]
  /\ req' = [req EXCEPT ![p] = r]
  /\ UNCHANGED response
  /\ UNCHANGED <<calendar, slotDeleted, outbox, registry, accounts>>

\* -------------------------------------------------------------- accounts
\* A calendar date: the months since January of the first year and the day
\* of the month. NoDate is the null of salons.next_due_date.
Date(month, day) == [month |-> month, day |-> day]
NoDate == Date(-1, 0)

\* The days of a month of a common year.
DaysIn(month) ==
  CASE month % 12 = 1 -> 28
    [] month % 12 \in {3, 5, 8, 10} -> 30
    [] OTHER -> 31

\* Date.prototype.setMonth(getMonth() + n): the day of the month is kept,
\* and a day the target month does not have runs over into the next month.
setMonth(date, n) ==
  IF date.day <= DaysIn(date.month + n)
    THEN Date(date.month + n, date.day)
    ELSE Date(date.month + n + 1, date.day - DaysIn(date.month + n))

\* The phone and the token of the OTP session send-otp created, and the
\* six digits it sent.
Phones == {"ph1", "ph2"}
Tokens == {"tok", "stale"}
Codes == {"123456", "000000"}
SessionPhone == "ph1"
SessionToken == "tok"
SessionCode == "123456"

FreshSession == [used |-> FALSE, attempts |-> 0, expired |-> FALSE]
\* The history: the codes compared, the logins granted and the codes
\* rejected for the session, and the due-date extensions of each payment.
PaymentIds == {"pay1", "pay2"}
NoHistory ==
  [compared |-> 0, succeeded |-> 0, rejected |-> 0,
   extensions |-> [i \in PaymentIds |-> 0]]

\* No payment was submitted, no due date is set, one OTP session is open.
AccountsInit ==
  /\ memberships = InitialMemberships
  /\ payments = <<>>
  /\ nextDueDate = [s \in Salons |-> NoDate]
  /\ otpSession = FreshSession
  /\ users = {SessionPhone}
  /\ history = NoHistory

\* ------------------------------------------------------ operating hours
\* salons.ts:524; getDay() + 1 indexes the tuple.
daysOfWeek ==
  <<"sunday", "monday", "tuesday", "wednesday", "thursday", "friday", "saturday">>

\* The strings of an operating-hours entry: "HH:MM", a word without digits
\* (seed.ts writes 'Closed'), or the empty string.
HM(h, m) == [kind |-> "hm", h |-> h, m |-> m]
Word == [kind |-> "word", h |-> 0, m |-> 0]
EmptyString == [kind |-> "empty", h |-> 0, m |-> 0]

\* salons.ts:201-209
defaultHours ==
  [d \in {daysOfWeek[i] : i \in 1..7} |->
     IF d = "sunday" THEN [open |-> HM(10, 0), close |-> HM(16, 0), closed |-> TRUE]
     ELSE IF d = "saturday"
       THEN [open |-> HM(10, 0), close |-> HM(16, 0), closed |-> FALSE]
     ELSE [open |-> HM(9, 0), close |-> HM(18, 0), closed |-> FALSE]]

Init ==
  /\ salonStatus = [s \in Salons |-> "pending"]
  /\ serviceActive = [v \in Services |-> TRUE]
  /\ slots = [t \in Slots |-> [capacity |-> 1, bookedCount |-> 0]]
  /\ bookings = <<>>
  /\ pc = [p \in Procs |-> "idle"]
  /\ req = [p \in Procs |-> NoReq]
  /\ response = "none"
  /\ operatingHours = defaultHours
  /\ tzOffset = 0
  /\ slotRows = EmptyBag
  /\ slotDeleted = {}
  /\ notifications = <<>>
  /\ deployment = "live"
  /\ catalog = Services
  /\ userRoles = InitialRoles
  /\ AccountsInit

\* ------------------------------------------------------ guards and ledger
\* Faulty variant of the salon check: a pending salon is let through.
SalonUnavailableUnlessPending(s) == salonStatus[s] \in {"rejected", "suspended"}

\* bookings.ts:143  if (!salon || salon.status !== 'approved')
SalonUnavailable(s) == salonStatus[s] # "approved"

\* bookings.ts:144  if (!service || !service.isActive)
ServiceUnavailable(v) == v \notin catalog \/ ~serviceActive[v]

\* Faulty variant of the capacity check: off by one (> for >=).
SlotOverfull(t) ==
  t \in slotDeleted \/ slots[t].bookedCount > slots[t].capacity

\* bookings.ts:145  if (!slot || slot.bookedCount >= slot.capacity)
SlotFull(t) ==
  t \in slotDeleted \/ slots[t].bookedCount >= slots[t].capacity

\* Faulty variant of the cancel guard: every status may be cancelled.
CancellableAlways(st) == TRUE

\* bookings.ts:273  if (booking.status !== 'booked')
CancellableStatus(st) == st = "booked"

\* Faulty variant of the complete guard: every status may be completed.
CompletableAlways(st) == TRUE

\* bookings.ts:323  if (booking.status !== 'booked' && booking.status !== 'in_progress')
CompletableStatus(st) == st \in {"booked", "in_progress"}

\* bookings.ts:377  if (booking.status !== 'booked')
StartableStatus(st) == st = "booked"

\* bookedCount: { increment: 1 }
Reserve(sl, t) == [sl EXCEPT ![t].bookedCount = @ + 1]

\* bookedCount: { decrement: 1 }
Release(sl, t) == [sl EXCEPT ![t].bookedCount = @ - 1]

\* Create transactions that passed their checks and have not yet committed.
PendingCreates == Cardinality({p \in Procs : pc[p] = "create_tx"})

\* Bound of the model: the counters stay within the number of bookings.
CountInRange(sl) ==
  \A t \in Slots : sl[t].bookedCount \in -MaxBookings..MaxBookings

\* ---------------------------------------------------- POST /api/bookings
\* Validation checks on the rows looked up (bookings.ts:141-145): the error
\* thrown, or "pass".
CreateCheck(a, s, v, t) ==
  IF SalonUnavailable(s) THEN "Salon unavailable"
  ELSE IF ServiceUnavailable(v) THEN "Service unavailable"
  ELSE IF SlotFull(t) THEN "Slot full"
  ELSE "pass"

\* What the handler carries from its lookups into the transaction.
CreateReq(a, s, v, t) ==
  [op |-> "create", actor |-> a, salonId |-> s, serviceId |-> v, slotId |-> t]

\* The booking row the transaction inserts (bookings.ts:156-169).
NewBooking(r) ==
  [userId |-> r.actor, salonId |-> r.salonId, serviceId |-> r.serviceId,
   slotId |-> r.slotId, status |-> "booked"]

\* prisma.$transaction([booking.create, slot.update]) (bookings.ts:155-181).
CreateTx(r) ==
  /\ bookings' = Append(bookings, NewBooking(r))
  /\ slots' = Reserve(slots, r.slotId)
  /\ UNCHANGED <<salonStatus, serviceActive>>

\* The state of the confirmation task when confirmationTask() returns to the
\* handler (bookings.ts:194-215): in development the payload is logged and
\* nothing is sent; without TWILIO_PHONE_NUMBER sendBookingConfirmation
\* throws (twilio.ts:42-44) and the catch logs it; otherwise the task waits
\* for client.messages.create.
confirmationTask(env) ==
  CASE env = "development" -> "logged"
    [] env = "unconfigured" -> "failed"
    [] env = "live" -> "pending"

\* Faulty variant: the task is started before the transaction's outcome is
\* known.
StartTaskEarly(ns, committed, id, env) ==
  IF confirmationTask(env) # "logged"
    THEN Append(ns, [bookingId |-> id, state |-> confirmationTask(env)])
    ELSE ns

\* The notifications after the handler's transaction step: the task is
\* started past the awaited $transaction (bookings.ts:155, 215), which
\* throws when it aborts.
StartTask(ns, committed, id, env) ==
  IF committed /\ confirmationTask(env) # "logged"
    THEN Append(ns, [bookingId |-> id, state |-> confirmationTask(env)])
    ELSE ns

\* Faulty variant: the handler awaits the task and a failed task becomes the
\* response.
CreateResponseAwaited(task) ==
  IF task = "failed" THEN "Internal server error" ELSE "ok"

\* confirmationTask() is not awaited and its catch swallows every error
\* (bookings.ts:210-217): the 201 is sent whatever the task's state.
CreateResponse(task) == "ok"

\* The handler past a committed transaction (bookings.ts:183-217).
Created(p, id) ==
  /\ notifications' = StartTask(notifications, TRUE, id, deployment)
  /\ UNCHANGED <<deployment, registry, accounts>>
  /\ Reply(p, CreateResponse(confirmationTask(deployment)))

\* The transaction threw: the rest of the handler is skipped and the raw
\* error becomes a 500.
Aborted(p, id) ==
  /\ notifications' = StartTask(notifications, FALSE, id, deployment)
  /\ UNCHANGED <<deployment, registry, accounts>>
  /\ Reply(p, "Internal server error")

\* client.messages.create resolved for the messages of task i
\* (twilio.ts:62-75).
TwilioDelivers(i) ==
  /\ i \in 1..Len(notifications)
  /\ notifications[i].state = "pending"
  /\ notifications' = [notifications EXCEPT ![i].state = "sent"]
  /\ UNCHANGED <<store, calendar, slotDeleted, deployment, registry, accounts,
                 pc, req, response>>

\* client.messages.create rejected: the error is logged (twilio.ts:76-79).
TwilioFails(i) ==
  /\ i \in 1..Len(notifications)
  /\ notifications[i].state = "pending"
  /\ notifications' = [notifications EXCEPT ![i].state = "failed"]
  /\ UNCHANGED <<store, calendar, slotDeleted, deployment, registry, accounts,
                 pc, req, response>>

\* ------------------------------------- POST /api/bookings/:bookingId/cancel
\* Lookup, permission check and status guard (bookings.ts:256-275).
CancelCheck(a, b) ==
  IF b > Len(bookings) THEN "Booking not found"
  ELSE IF /\ bookings[b].userId # a
          /\ ~isSalonStaff(a, bookings[b].salonId)
          /\ ~isSuperAdmin(a)
    THEN "Forbidden"
  ELSE IF ~CancellableStatus(bookings[b].status) THEN "Invalid status"
  ELSE "pass"

\* The slot released is the one the lookup returned (booking.slotId).
CancelReq(a, b) ==
  [op |-> "cancel", bookingId |-> b, slotId |-> bookings[b].slotId]

\* Faulty variant of the cancel transaction: the status write without the
\* slot update.
CancelTxStatusOnly(r) ==
  /\ bookings' = [bookings EXCEPT ![r.bookingId].status = "cancelled"]
  /\ UNCHANGED <<salonStatus, serviceActive, slots>>

\* prisma.$transaction([booking.update, slot.update]) (bookings.ts:277-289).
CancelTx(r) ==
  /\ bookings' = [bookings EXCEPT ![r.bookingId].status = "cancelled"]
  /\ slots' = Release(slots, r.slotId)
  /\ UNCHANGED <<salonStatus, serviceActive>>

\* ----------------------------------- POST /api/bookings/:bookingId/complete
\* Faulty variant of the complete checks: the booking's owner passes the
\* permission check, as in cancel.
CompleteCheckOwnerToo(a, b) ==
  IF b > Len(bookings) THEN "Booking not found"
  ELSE IF /\ bookings[b].userId # a
          /\ ~isSalonStaff(a, bookings[b].salonId)
          /\ ~isSuperAdmin(a)
    THEN "Forbidden"
  ELSE IF ~CompletableStatus(bookings[b].status) THEN "Invalid status"
  ELSE "pass"

\* Lookup, permission check and status guard (bookings.ts:310-325).
CompleteCheck(a, b) ==
  IF b > Len(bookings) THEN "Booking not found"
  ELSE IF ~isSalonStaff(a, bookings[b].salonId) /\ ~isSuperAdmin(a)
    THEN "Forbidden"
  ELSE IF ~CompletableStatus(bookings[b].status) THEN "Invalid status"
  ELSE "pass"

CompleteReq(b, markNoShow) ==
  [op |-> "complete", bookingId |-> b, markNoShow |-> markNoShow]

\* The status the complete handler writes (bookings.ts:330).
CompletedStatus(markNoShow) == IF markNoShow THEN "no_show" ELSE "completed"

\* Faulty variant of the complete write: the booking's slot gets its unit
\* back.
CompleteTxReleasing(r) ==
  /\ bookings' = [bookings EXCEPT
                    ![r.bookingId].status = CompletedStatus(r.markNoShow)]
  /\ slots' = Release(slots, bookings[r.bookingId].slotId)
  /\ UNCHANGED <<salonStatus, serviceActive>>

\* prisma.booking.update (bookings.ts:327-334): no slot is touched.
CompleteTx(r) ==
  /\ bookings' = [bookings EXCEPT
                    ![r.bookingId].status = CompletedStatus(r.markNoShow)]
  /\ UNCHANGED <<salonStatus, serviceActive, slots>>

\* ------------------------------------ PATCH /api/bookings/:bookingId/update
\* Lookup, permission check and start-service guard (bookings.ts:359-379).
UpdateCheck(a, b, serviceStarted) ==
  IF b > Len(bookings) THEN "Booking not found"
  ELSE IF ~isSalonStaff(a, bookings[b].salonId) /\ ~isSuperAdmin(a)
    THEN "Forbidden"
  ELSE IF serviceStarted /\ ~StartableStatus(bookings[b].status)
    THEN "Invalid status"
  ELSE "pass"

\* The update payload (bookings.ts:373-387) and the slotId the lookup
\* returned.  v and t are NoId when the body leaves them out.
UpdateReq(b, serviceStarted, v, t) ==
  [op |-> "update", bookingId |-> b, serviceStarted |-> serviceStarted,
   serviceId |-> v, slotId |-> t, oldSlotId |-> bookings[b].slotId]

\* booking.update({ data: updatePayload }): only the keys the payload holds.
ApplyPayload(bk, r) ==
  [bk EXCEPT
     !.status = IF r.serviceStarted THEN "in_progress" ELSE @,
     !.serviceId = IF r.serviceId # NoId THEN r.serviceId ELSE @,
     !.slotId = IF r.slotId # NoId THEN r.slotId ELSE @]

\* bookings.ts:390  if (data.slotId && data.slotId !== booking.slotId)
SlotChanges(r) == r.slotId # NoId /\ r.slotId # r.oldSlotId

\* Faulty variant of the slot change: the new slot is incremented and the
\* old slot is not decremented.
MoveSlotNoRelease(sl, r) ==
  IF r.slotId # NoId /\ r.slotId # r.oldSlotId THEN Reserve(sl, r.slotId) ELSE sl

\* The slot counters after the update (bookings.ts:390-407): decrement the
\* old slot and increment the new one when the slot changes.
MoveSlot(sl, r) ==
  IF SlotChanges(r) THEN Reserve(Release(sl, r.oldSlotId), r.slotId) ELSE sl

\* Faulty variant: no statement of the update needs a slot row.
SlotRowIgnored(r) == FALSE

\* A slot row the update needs is gone: booking.update is refused by the
\* foreign key bookings_slot_id_fkey when the payload's slotId names no row,
\* and slot.update (bookings.ts:393-401) fails on a row that is gone; the
\* transaction then writes nothing.
SlotRowGone(r) ==
  \/ r.slotId # NoId /\ r.slotId \in slotDeleted
  \/ SlotChanges(r) /\ r.oldSlotId \in slotDeleted

\* The slot-change transaction (bookings.ts:391-407) or the plain update
\* (bookings.ts:410-413).
UpdateTx(r) ==
  /\ bookings' = [bookings EXCEPT ![r.bookingId] = ApplyPayload(@, r)]
  /\ slots' = MoveSlot(slots, r)
  /\ UNCHANGED <<salonStatus, serviceActive>>

\* ------------------------------------------- handlers, checks then write
\* Under ConcSpec: the checks (Begin) and the write (Commit) are separate steps.
CreateBegin(p, a, s, v, t) ==
  /\ pc[p] = "idle"
  /\ Len(bookings) + PendingCreates < MaxBookings
  /\ UNCHANGED store
  /\ IF CreateCheck(a, s, v, t) # "pass"
       THEN Respond(p, CreateCheck(a, s, v, t))
       ELSE Await(p, "create_tx", CreateReq(a, s, v, t))

CreateCommit(p) ==
  /\ pc[p] = "create_tx"
  /\ req[p].slotId \notin slotDeleted
  /\ CreateTx(req[p])
  /\ CountInRange(slots')
  /\ Created(p, Len(bookings) + 1)

\* The transaction aborts (the qr_code unique index rejects a colliding
\* code): nothing is written and the raw error becomes a 500.
CreateAbort(p) ==
  /\ pc[p] = "create_tx"
  /\ UNCHANGED store
  /\ Aborted(p, Len(bookings) + 1)

CancelBegin(p, a, b) ==
  /\ pc[p] = "idle"
  /\ UNCHANGED store
  /\ IF CancelCheck(a, b) # "pass"
       THEN Respond(p, CancelCheck(a, b))
       ELSE Await(p, "cancel_tx", CancelReq(a, b))

CancelCommit(p) ==
  /\ pc[p] = "cancel_tx"
  /\ CancelTx(req[p])
  /\ CountInRange(slots')
  /\ Respond(p, "ok")

CompleteBegin(p, a, b, markNoShow) ==
  /\ pc[p] = "idle"
  /\ UNCHANGED store
  /\ IF CompleteCheck(a, b) # "pass"
       THEN Respond(p, CompleteCheck(a, b))
       ELSE Await(p, "complete_tx", CompleteReq(b, markNoShow))

CompleteCommit(p) ==
  /\ pc[p] = "complete_tx"
  /\ CompleteTx(req[p])
  /\ Respond(p, "ok")

UpdateBegin(p, a, b, serviceStarted, v, t) ==
  /\ pc[p] = "idle"
  /\ UNCHANGED store
  /\ IF UpdateCheck(a, b, serviceStarted) # "pass"
       THEN Respond(p, UpdateCheck(a, b, serviceStarted))
       ELSE Await(p, "update_tx", UpdateReq(b, serviceStarted, v, t))

UpdateCommit(p) ==
  /\ pc[p] = "update_tx"
  /\ IF SlotRowGone(req[p])
       THEN UNCHANGED store /\ Respond(p, "Internal server error")
       ELSE /\ UpdateTx(req[p])
            /\ CountInRange(slots')
            /\ Respond(p, "ok")

\* Under Spec: the whole handler is one step.
Create(p, a, s, v, t) ==
  /\ pc[p] = "idle"
  /\ Len(bookings) < MaxBookings
  /\ IF CreateCheck(a, s, v, t) # "pass"
       THEN UNCHANGED store /\ Respond(p, CreateCheck(a, s, v, t))
       ELSE \/ CreateTx(CreateReq(a, s, v, t)) /\ Created(p, Len(bookings) + 1)
            \/ UNCHANGED store /\ Aborted(p, Len(bookings) + 1)

Cancel(p, a, b) ==
  /\ pc[p] = "idle"
  /\ IF CancelCheck(a, b) # "pass"
       THEN UNCHANGED store /\ Respond(p, CancelCheck(a, b))
       ELSE CancelTx(CancelReq(a, b)) /\ Respond(p, "ok")

Complete(p, a, b, markNoShow) ==
  /\ pc[p] = "idle"
  /\ IF CompleteCheck(a, b) # "pass"
       THEN UNCHANGED store /\ Respond(p, CompleteCheck(a, b))
       ELSE CompleteTx(CompleteReq(b, markNoShow)) /\ Respond(p, "ok")

Update(p, a, b, serviceStarted, v, t) ==
  /\ pc[p] = "idle"
  /\ IF UpdateCheck(a, b, serviceStarted) # "pass"
       THEN UNCHANGED store /\ Respond(p, UpdateCheck(a, b, serviceStarted))
     ELSE IF SlotRowGone(UpdateReq(b, serviceStarted, v, t))
       THEN UNCHANGED store /\ Respond(p, "Internal server error")
     ELSE UpdateTx(UpdateReq(b, serviceStarted, v, t)) /\ Respond(p, "ok")

\* --------------------------------------- PUT /api/salons/:salonId/slots/:slotId
\* Permission check, then slot.update({ where: { id, salonId }, data })
\* (salons.ts:586-605): one store operation, no check against bookedCount.
UpdateSlotCapacity(p, a, s, t, capacity) ==
  /\ pc[p] = "idle"
  /\ UNCHANGED <<salonStatus, serviceActive, bookings>>
  /\ IF ~isSalonAdmin(a, s)
       THEN UNCHANGED slots /\ Respond(p, "Forbidden")
     ELSE IF slotSalon[t] # s
       THEN UNCHANGED slots /\ Respond(p, "Internal server error")
     ELSE /\ slots' = [slots EXCEPT ![t].capacity = capacity]
          /\ Respond(p, "ok")

\* The status the approve handler writes (salons.ts:325-329).
statusMap(action) ==
  CASE action = "approve" -> "approved"
    [] action = "reject" -> "rejected"
    [] action = "suspend" -> "suspended"

\* ----------------------------------------- POST /api/salons/:salonId/approve
\* salons.ts:308-345.
ApproveSalon(p, a, s, action) ==
  /\ pc[p] = "idle"
  /\ UNCHANGED <<serviceActive, slots, bookings>>
  /\ IF ~isSuperAdmin(a)
       THEN UNCHANGED salonStatus /\ Respond(p, "Forbidden")
       ELSE /\ salonStatus' = [salonStatus EXCEPT ![s] = statusMap(action)]
            /\ Respond(p, "ok")

\* ------------------------- PUT /api/salons/:salonId/services/:serviceId
\* salons.ts:431-455, the isActive key of the body.
UpdateService(p, a, s, v, isActive) ==
  /\ pc[p] = "idle"
  /\ UNCHANGED <<salonStatus, slots, bookings>>
  /\ IF ~isSalonAdmin(a, s)
       THEN UNCHANGED serviceActive /\ Respond(p, "Forbidden")
     ELSE IF v \notin catalog \/ serviceSalon[v] # s
       THEN UNCHANGED serviceActive /\ Respond(p, "Internal server error")
     ELSE /\ serviceActive' = [serviceActive EXCEPT ![v] = isActive]
          /\ Respond(p, "ok")

\* ----------------------------------------- POST /api/salons/:salonId/services
\* salons.ts:367-380: optionalAuth, no permission check; the row is created
\* for the salon of the path and the handler answers 200 with it.
CreateService(p, a, s, v) ==
  /\ pc[p] = "idle"
  /\ v \in NewServices \ catalog
  /\ catalog' = catalog \cup {v}
  /\ UNCHANGED <<store, outbox, userRoles, accounts>>
  /\ Reply(p, "ok")

\* ---------------------- DELETE /api/salons/:salonId/services/:serviceId
\* A booking references the service: bookings_service_id_fkey (ON DELETE
\* RESTRICT) refuses the delete.
ServiceReferenced(v) == \E b \in 1..Len(bookings) : bookings[b].serviceId = v

\* salons.ts:461-473: permission check, then service.delete({ where: { id,
\* salonId } }).
DeleteService(p, a, s, v) ==
  /\ pc[p] = "idle"
  /\ UNCHANGED <<store, outbox, userRoles, accounts>>
  /\ IF ~isSalonAdmin(a, s)
       THEN UNCHANGED catalog /\ Reply(p, "Forbidden")
     ELSE IF v \notin catalog \/ serviceSalon[v] # s \/ ServiceReferenced(v)
       THEN UNCHANGED catalog /\ Reply(p, "Internal server error")
     ELSE /\ catalog' = catalog \ {v}
          /\ Reply(p, "ok")

\* ------------------------------------------------- POST /api/users/roles
\* part_003:165-191: the only check is on the super_admin role; add is
\* userRole.create (refused by the unique index user_roles_user_id_role_key
\* when the row exists), remove is userRole.deleteMany.
ManageRole(p, a, userId, role, action) ==
  /\ pc[p] = "idle"
  /\ UNCHANGED <<store, outbox, catalog, accounts>>
  /\ IF role = "super_admin" /\ ~isSuperAdmin(a)
       THEN UNCHANGED userRoles /\ Reply(p, "Forbidden")
     ELSE IF action = "add" /\ <<userId, role>> \in userRoles
       THEN UNCHANGED userRoles /\ Reply(p, "Internal server error")
     ELSE IF action = "add"
       THEN /\ userRoles' = userRoles \cup {<<userId, role>>}
            /\ Reply(p, "ok")
     ELSE /\ userRoles' = userRoles \ {<<userId, role>>}
          /\ Reply(p, "ok")

\* --------------------------------- POST /api/salons/:salonId/slots/generate
\* Dates are days since 1970-01-01 and instants are minutes since
\* 1970-01-01T00:00Z.
\* new Date("YYYY-MM-DD"): midnight UTC of the date.
DateToInstant(date) == date * 1440

\* currentDate.toISOString().split('T')[0]: the UTC date of the instant.
ISODate(instant) == instant \div 1440

\* currentDate.getDay(): the weekday of the instant in the server's local
\* time (0 = sunday; 1970-01-01 was a thursday).
getDay(instant) == (((instant + tzOffset) \div 1440) + 4) % 7

\* A string is truthy unless it is empty.
Truthy(str) == str.kind # "empty"

\* split(':').map(Number) yields NaN for the hour or the minute.
IsNaN(str) == str.kind # "hm"

\* openH * 60 + openM
TotalMinutes(str) == str.h * 60 + str.m

\* `${String(startH).padStart(2, '0')}:${String(startM).padStart(2, '0')}:00Z`
FormatTime(totalMinutes) == HM(totalMinutes \div 60, totalMinutes % 60)

\* new Date(`1970-01-01T${time}`) stored in a TIME column: minutes since
\* midnight.
ParseTime(str) == str.h * 60 + str.m

\* The row pushed by one iteration of the inner loop (salons.ts:552-559).
SlotRow(s, instant, currentTotalMinutes, duration, capacity) ==
  [salonId |-> s,
   date |-> ISODate(instant),
   startTime |-> ParseTime(FormatTime(currentTotalMinutes)),
   endTime |-> ParseTime(FormatTime(currentTotalMinutes + duration)),
   capacity |-> capacity]

\* Faulty variant of the loop condition: a slot that ends exactly at the
\* closing time is left out (< for <=).
EndsBeforeClose(currentTotalMinutes, duration, closingTotalMinutes) ==
  currentTotalMinutes + duration < closingTotalMinutes

\* salons.ts:543  while (currentTotalMinutes + slotDurationMinutes <= closingTotalMinutes)
FitsBeforeClose(currentTotalMinutes, duration, closingTotalMinutes) ==
  currentTotalMinutes + duration <= closingTotalMinutes

\* The inner loop (salons.ts:543-562): the rows of one day.
RECURSIVE DaySlots(_, _, _, _, _, _)
DaySlots(s, instant, currentTotalMinutes, closingTotalMinutes, duration, capacity) ==
  IF FitsBeforeClose(currentTotalMinutes, duration, closingTotalMinutes)
    THEN <<SlotRow(s, instant, currentTotalMinutes, duration, capacity)>>
           \o DaySlots(s, instant, currentTotalMinutes + duration,
                       closingTotalMinutes, duration, capacity)
    ELSE <<>>

\* salons.ts:536  if (config && !config.closed && config.open && config.close)
OpenThatDay(hours, dayName) ==
  /\ dayName \in DOMAIN hours
  /\ ~hours[dayName].closed
  /\ Truthy(hours[dayName].open)
  /\ Truthy(hours[dayName].close)

\* The body of the day loop (salons.ts:532-564): the rows one day adds.  A
\* NaN total makes the inner loop's comparison false.
DayRows(r) ==
  LET dayName == daysOfWeek[getDay(r.currentDate) + 1]
  IN IF ~OpenThatDay(r.operatingHours, dayName) THEN <<>>
     ELSE IF \/ IsNaN(r.operatingHours[dayName].open)
             \/ IsNaN(r.operatingHours[dayName].close)
       THEN <<>>
     ELSE DaySlots(r.salonId, r.currentDate,
                   TotalMinutes(r.operatingHours[dayName].open),
                   TotalMinutes(r.operatingHours[dayName].close),
                   r.slotDurationMinutes, r.defaultCapacity)

\* The unique index slots_salon_id_date_start_time_key.
SlotKey(row) == <<row.salonId, row.date, row.startTime>>

\* The rows of the sequence, as a bag.
RECURSIVE SeqToBag(_)
SeqToBag(rows) ==
  IF rows = <<>> THEN EmptyBag
  ELSE SetToBag({Head(rows)}) (+) SeqToBag(Tail(rows))

\* Faulty variant of the index: no pair of rows is refused.
NoUniqueIndex(bag) == FALSE

\* Some key is held by two rows of the bag.
DuplicateKey(bag) ==
  \E r1 \in BagToSet(bag) :
    \/ CopiesIn(r1, bag) > 1
    \/ \E r2 \in BagToSet(bag) \ {r1} : SlotKey(r1) = SlotKey(r2)

\* Faulty variant of the insert: the generated rows replace the rows in
\* place.
ReplaceRows(bag, rows) == SeqToBag(rows)

\* createMany({ data: slotsToCreate }) (salons.ts:571-574): the rows in
\* place and the generated rows.
InsertRows(bag, rows) == bag (+) SeqToBag(rows)

\* Permission check and parsed body, up to the awaited salon lookup
\* (salons.ts:505-520).
GenerateBegin(p, a, s, startDate, endDate, duration, capacity) ==
  /\ pc[p] = "idle"
  /\ UNCHANGED <<store, calendar, slotDeleted, outbox, registry, accounts>>
  /\ IF ~isSalonAdmin(a, s)
       THEN /\ pc' = pc
            /\ req' = req
            /\ response' = "Forbidden"
       ELSE /\ pc' = [pc EXCEPT ![p] = "generate_lookup"]
            /\ req' = [req EXCEPT ![p] =
                 [op |-> "generate", salonId |-> s,
                  startDate |-> startDate, endDate |-> endDate,
                  slotDurationMinutes |-> duration,
                  defaultCapacity |-> capacity]]
            /\ UNCHANGED response

\* The code between two awaits runs without another handler in between: no
\* other process is inside its day loop.
NoOtherInLoop(p) == \A q \in Procs \ {p} : pc[q] # "generate_loop"

\* The lookup returns and the loop variables are initialised
\* (salons.ts:520-529).
GenerateLookup(p) ==
  /\ pc[p] = "generate_lookup"
  /\ NoOtherInLoop(p)
  /\ pc' = [pc EXCEPT ![p] = "generate_loop"]
  /\ req' = [req EXCEPT ![p] =
       [op |-> "generate", salonId |-> req[p].salonId,
        startDate |-> req[p].startDate, endDate |-> req[p].endDate,
        slotDurationMinutes |-> req[p].slotDurationMinutes,
        defaultCapacity |-> req[p].defaultCapacity,
        operatingHours |-> operatingHours,
        currentDate |-> DateToInstant(req[p].startDate),
        finalDate |-> DateToInstant(req[p].endDate),
        visited |-> <<>>,
        slotsToCreate |-> <<>>]]
  /\ UNCHANGED <<store, calendar, slotDeleted, outbox, registry, accounts, response>>

\* One iteration of the day loop (salons.ts:531-567); visited records the
\* date of each iteration.
GenerateDay(p) ==
  /\ pc[p] = "generate_loop"
  /\ req[p].currentDate <= req[p].finalDate
  /\ req' = [req EXCEPT
       ![p].slotsToCreate = @ \o DayRows(req[p]),
       ![p].visited = Append(@, ISODate(req[p].currentDate)),
       ![p].currentDate = @ + 1440]
  /\ UNCHANGED <<store, calendar, slotDeleted, outbox, registry, accounts, pc, response>>

\* The loop exits and the handler awaits prisma.slot.createMany
\* (salons.ts:531, 571).
GenerateExit(p) ==
  /\ pc[p] = "generate_loop"
  /\ ~(req[p].currentDate <= req[p].finalDate)
  /\ pc' = [pc EXCEPT ![p] = "generate_tx"]
  /\ UNCHANGED <<store, calendar, slotDeleted, outbox, registry, accounts, req, response>>

\* prisma.slot.createMany (salons.ts:571-580): one insert statement, refused
\* as a whole when a row would break the unique index.
GenerateCommit(p) ==
  /\ pc[p] = "generate_tx"
  /\ pc' = [pc EXCEPT ![p] = "idle"]
  /\ req' = [req EXCEPT ![p] = NoReq]
  /\ UNCHANGED <<store, operatingHours, tzOffset, slotDeleted, outbox, registry, accounts>>
  /\ IF DuplicateKey(InsertRows(slotRows, req[p].slotsToCreate))
       THEN /\ slotRows' = slotRows
            /\ response' = "Internal server error"
       ELSE /\ slotRows' = InsertRows(slotRows, req[p].slotsToCreate)
            /\ response' = "ok"

\* ------------------------------- DELETE /api/salons/:salonId/slots/:slotId
\* Faulty variant of the delete guard: a slot with one booking passes.
HasSeveralBookings(t) == slots[t].bookedCount > 1

\* salons.ts:622  if (slot.bookedCount > 0)
HasBookings(t) == slots[t].bookedCount > 0

\* Permission check, lookup and guard (salons.ts:611-624): the error thrown,
\* or "pass".
DeleteCheck(a, s, t) ==
  IF ~isSalonAdmin(a, s) THEN "Forbidden"
  ELSE IF t \in slotDeleted THEN "Slot not found"
  ELSE IF HasBookings(t) THEN "Cannot delete slot with existing bookings"
  ELSE "pass"

\* The slot row the lookup returned.
DeleteReq(s, t) ==
  [op |-> "delete", salonId |-> s, slotId |-> t,
   bookedCount |-> slots[t].bookedCount]

DeleteBegin(p, a, s, t) ==
  /\ pc[p] = "idle"
  /\ UNCHANGED store
  /\ IF DeleteCheck(a, s, t) # "pass"
       THEN Respond(p, DeleteCheck(a, s, t))
       ELSE Await(p, "delete_tx", DeleteReq(s, t))

\* The row is gone, or a booking still references it and the foreign key
\* bookings_slot_id_fkey (ON DELETE RESTRICT) refuses the delete.
DeleteRefused(t) ==
  \/ t \in slotDeleted
  \/ \E b \in 1..Len(bookings) : bookings[b].slotId = t

\* prisma.slot.delete (salons.ts:626).
DeleteCommit(p) ==
  /\ pc[p] = "delete_tx"
  /\ pc' = [pc EXCEPT ![p] = "idle"]
  /\ req' = [req EXCEPT ![p] = NoReq]
  /\ UNCHANGED <<store, calendar, outbox, registry, accounts>>
  /\ IF DeleteRefused(req[p].slotId)
       THEN /\ slotDeleted' = slotDeleted
            /\ response' = "Internal server error"
       ELSE /\ slotDeleted' = slotDeleted \cup {req[p].slotId}
            /\ response' = "ok"

\* ------------------------ DELETE /api/salons/:salonId/staff/:membershipId
\* router.index.ts:129  if (!isSalonAdmin(req, salonId) && !isSuperAdmin(req))
StaffCheck(a, s) ==
  IF ~isSalonAdmin(a, s) /\ ~isSuperAdmin(a) THEN "Forbidden" ELSE "pass"

\* salonMembership.findFirst({ where: { id: membershipId, salonId } })
FindMembership(membershipId, s) ==
  {m \in memberships : m.id = membershipId /\ m.salonId = s}

\* salonMembership.count({ where: { salonId, role: 'salon_admin' } })
adminCount(s) ==
  Cardinality({m \in memberships : m.salonId = s /\ m.role = "salon_admin"})

\* router.index.ts:142: the actor removes their own admin membership.
OwnAdminMembership(a, m) == m.userId = a /\ m.role = "salon_admin"

RemoveReq(a, s, m) ==
  [op |-> "remove", actor |-> a, salonId |-> s, membershipId |-> m.id]

\* Permission check and lookup (router.index.ts:125-139); the count is
\* awaited only for the actor's own admin membership.
RemoveBegin(p, a, s, membershipId) ==
  /\ pc[p] = "idle"
  /\ UNCHANGED store
  /\ IF StaffCheck(a, s) # "pass"
       THEN Respond(p, StaffCheck(a, s))
     ELSE IF FindMembership(membershipId, s) = {}
       THEN Respond(p, "Staff member not found")
     ELSE LET m == CHOOSE m \in FindMembership(membershipId, s) : TRUE
          IN IF OwnAdminMembership(a, m)
               THEN Await(p, "remove_count", RemoveReq(a, s, m))
               ELSE Await(p, "remove_tx", RemoveReq(a, s, m))

\* router.index.ts:143-149  if (adminCount <= 1)
RemoveCount(p) ==
  /\ pc[p] = "remove_count"
  /\ UNCHANGED store
  /\ IF adminCount(req[p].salonId) <= 1
       THEN Respond(p, "Cannot remove the only admin")
       ELSE Await(p, "remove_tx", req[p])

\* salonMembership.delete({ where: { id: membershipId } })
\* (router.index.ts:152-154); a row that is gone makes the delete throw.
RemoveCommit(p) ==
  /\ pc[p] = "remove_tx"
  /\ UNCHANGED <<store, outbox, registry, payments, nextDueDate, identity,
               history>>
  /\ IF \E m \in memberships : m.id = req[p].membershipId
       THEN /\ memberships' =
                 {m \in memberships : m.id # req[p].membershipId}
            /\ Reply(p, "ok")
       ELSE /\ UNCHANGED memberships
            /\ Reply(p, "Internal server error")

\* ------------------------------------ PATCH /api/salon-payments/:id/status
\* The handler goes on to label with locals r; what it wrote is stated by
\* the step.
Continue(p, label, r) ==
  /\ pc' = [pc EXCEPT ![p] = label]
  /\ req' = [req EXCEPT ![p] = r]
  /\ UNCHANGED response
  /\ UNCHANGED <<calendar, slotDeleted, outbox, registry>>

\* updateStatusSchema (salonPayment.ts:18-20).
PaymentStatuses == {"pending", "verified", "rejected"}

\* userRole.findFirst({ where: { userId, role: "salon_admin" } })
\* (salonPayment.ts:115-120).
FindSalonAdminRole(a) ==
  {ur \in userRoles : ur[1] = a /\ ur[2] = "salon_admin"}

StatusReq(a, id, status) ==
  [op |-> "status", actor |-> a, id |-> id, status |-> status,
   salonId |-> NoId, monthsPaid |-> 0, dueDate |-> NoDate]

\* The role lookup and its 403 (salonPayment.ts:111-124).
StatusBegin(p, a, id, status) ==
  /\ pc[p] = "idle"
  /\ \A s \in DOMAIN nextDueDate : nextDueDate[s].month <= MaxDueMonth
  /\ UNCHANGED store
  /\ IF FindSalonAdminRole(a) = {}
       THEN Respond(p, "Forbidden")
       ELSE Await(p, "status_find", StatusReq(a, id, status))

\* salonPayment.findUnique({ where: { id }, include: { salon: true } })
\* (salonPayment.ts:126-133): the payment and its salon's due date are read.
StatusFind(p) ==
  /\ pc[p] = "status_find"
  /\ UNCHANGED store
  /\ IF req[p].id \notin DOMAIN payments
       THEN Respond(p, "Payment record not found.")
       ELSE Await(p, "status_update",
                  [req[p] EXCEPT
                     !.salonId = payments[req[p].id].salonId,
                     !.monthsPaid = payments[req[p].id].monthsPaid,
                     !.dueDate = nextDueDate[payments[req[p].id].salonId]])

\* salonPayment.update({ where: { id }, data: { status, verifiedBy } })
\* (salonPayment.ts:136-142); a verified status goes on to the extension.
StatusUpdate(p) ==
  /\ pc[p] = "status_update"
  /\ payments' = [payments EXCEPT ![req[p].id].status = req[p].status,
                                  ![req[p].id].verifiedBy = req[p].actor]
  /\ UNCHANGED <<store, memberships, nextDueDate, identity, history>>
  /\ IF req[p].status = "verified"
       THEN Continue(p, "status_extend", req[p])
       ELSE Reply(p, "ok") /\ UNCHANGED <<outbox, registry>>

\* currentPayment.salon.nextDueDate || new Date()  (salonPayment.ts:146)
currentDueDate(r, now) == IF r.dueDate = NoDate THEN now ELSE r.dueDate

\* salonPayment.ts:145-154: the new due date is computed from the salon row
\* read with the payment, and written.
StatusExtend(p, now) ==
  /\ pc[p] = "status_extend"
  /\ nextDueDate' =
       [nextDueDate EXCEPT ![req[p].salonId] =
          setMonth(currentDueDate(req[p], now), req[p].monthsPaid)]
  /\ history' = [history EXCEPT !.extensions[req[p].id] = @ + 1]
  /\ UNCHANGED <<store, memberships, payments, identity>>
  /\ Reply(p, "ok")
  /\ UNCHANGED <<outbox, registry>>

\* ------------------------------------------------ POST /api/auth/verify-otp
\* The checks on the session row the lookup returned (auth.ts:131-149): the
\* error thrown, or "pass".
VerifyCheck(phone, token) ==
  IF token # SessionToken \/ phone # SessionPhone THEN "Invalid session"
  ELSE IF otpSession.used THEN "OTP already used"
  ELSE IF otpSession.expired THEN "OTP expired"
  ELSE IF otpSession.attempts >= 3 THEN "Too many attempts"
  ELSE "pass"

\* The body and the session row as the lookup read it.
VerifyReq(phone, otp, mode) ==
  [op |-> "verify", phone |-> phone, otp |-> otp, mode |-> mode,
   attempts |-> otpSession.attempts]

VerifyBegin(p, phone, otp, token, mode) ==
  /\ pc[p] = "idle"
  /\ UNCHANGED store
  /\ IF VerifyCheck(phone, token) # "pass"
       THEN Respond(p, VerifyCheck(phone, token))
       ELSE Await(p, "verify_compare", VerifyReq(phone, otp, mode))

\* bcrypt.compare(otp, session.otpHash)
isValid(otp) == otp = SessionCode

\* auth.ts:152-167: the comparison, then attempts is written as the value
\* read plus one, or the session is marked used.
VerifyCompare(p) ==
  /\ pc[p] = "verify_compare"
  /\ UNCHANGED <<store, office, users>>
  /\ IF isValid(req[p].otp)
       THEN /\ otpSession' = [otpSession EXCEPT !.used = TRUE]
            /\ history' = [history EXCEPT !.compared = @ + 1]
            /\ Continue(p, "verify_user", req[p])
       ELSE /\ otpSession' =
                 [otpSession EXCEPT !.attempts = req[p].attempts + 1]
            /\ history' = [history EXCEPT !.compared = @ + 1,
                                          !.rejected = @ + 1]
            /\ Reply(p, "Invalid OTP")
            /\ UNCHANGED <<outbox, registry>>

\* auth.ts:173-198: the user lookup; login answers with the token
\* (auth.ts:201-246), signup goes on to create the user.
VerifyUser(p) ==
  /\ pc[p] = "verify_user"
  /\ UNCHANGED <<store, office, identity>>
  /\ IF req[p].mode = "signup" /\ req[p].phone \in users
       THEN UNCHANGED history /\ Reply(p, "User already exists")
                              /\ UNCHANGED <<outbox, registry>>
     ELSE IF req[p].mode = "signup"
       THEN UNCHANGED history /\ Continue(p, "verify_create", req[p])
     ELSE IF req[p].phone \notin users
       THEN UNCHANGED history /\ Reply(p, "User not found")
                              /\ UNCHANGED <<outbox, registry>>
     ELSE /\ history' = [history EXCEPT !.succeeded = @ + 1]
          /\ Reply(p, "ok")
          /\ UNCHANGED <<outbox, registry>>

\* prisma.user.create (auth.ts:183-193), refused by the unique index
\* user_profiles_phone_key when the phone has a row; then the token.
VerifyCreate(p) ==
  /\ pc[p] = "verify_create"
  /\ UNCHANGED <<store, office, otpSession>>
  /\ UNCHANGED <<outbox, registry>>
  /\ IF req[p].phone \in users
       THEN UNCHANGED <<users, history>>
            /\ Reply(p, "Internal server error")
       ELSE /\ users' = users \cup {req[p].phone}
            /\ history' = [history EXCEPT !.succeeded = @ + 1]
            /\ Reply(p, "ok")

\* Time passes session.expiresAt (auth.ts:143).
Expire ==
  /\ ~otpSession.expired
  /\ otpSession' = [otpSession EXCEPT !.expired = TRUE]
  /\ UNCHANGED <<store, pc, req, response, calendar, slotDeleted, outbox,
                 registry, office, users, history>>

\* ------------------------------------------------------------ next state
\* The handlers that are one store operation.
Admin(p) ==
  \/ \E a \in Actors, s \in Salons, t \in Slots, c \in 1..MaxCapacity :
       UpdateSlotCapacity(p, a, s, t, c)
  \/ \E a \in Actors, s \in Salons, act \in {"approve", "reject", "suspend"} :
       ApproveSalon(p, a, s, act)
  \/ \E a \in Actors, s \in Salons, v \in Services, on \in BOOLEAN :
       UpdateService(p, a, s, v, on)

\* A request arrives at process p: the handler runs up to its first write.
\* The concurrent requests come from the booking's owner and from the salon's
\* staff; an update request either starts the service or names a slot.
Begin(p) ==
  \/ \E a \in Customers, s \in Salons, v \in Services, t \in Slots :
       CreateBegin(p, a, s, v, t)
  \/ \E a \in ConcActors, b \in BookingIds : CancelBegin(p, a, b)
  \/ \E a \in ConcActors, b \in BookingIds, n \in BOOLEAN :
       CompleteBegin(p, a, b, n)
  \/ \E a \in ConcActors, b \in BookingIds, t \in Slots \cup {NoId} :
       UpdateBegin(p, a, b, t = NoId, NoId, t)

\* The write of a handler that passed its checks.
Commit(p) ==
  \/ CreateCommit(p)
  \/ CreateAbort(p)
  \/ CancelCommit(p)
  \/ CompleteCommit(p)
  \/ UpdateCommit(p)

\* A whole request, from arrival to response.
Request(p) ==
  \/ \E a \in Customers, s \in Salons, v \in Services, t \in Slots :
       Create(p, a, s, v, t)
  \/ \E a \in Actors, b \in BookingIds : Cancel(p, a, b)
  \/ \E a \in Actors, b \in BookingIds, n \in BOOLEAN :
       Complete(p, a, b, n)
  \/ \E a \in Actors, b \in BookingIds, st \in BOOLEAN,
        v \in Services \cup {NoId}, t \in Slots \cup {NoId} :
       Update(p, a, b, st, v, t)

\* One process serves the requests one after another.
Server == CHOOSE p \in Procs : TRUE

\* Requests execute one at a time.
Next == Request(Server) \/ Admin(Server)

Spec == Init /\ [][Next]_vars

\* The booking handlers of concurrent requests interleave at their awaits,
\* on an approved salon with an active service.
ConcInit ==
  /\ salonStatus = [s \in Salons |-> "approved"]
  /\ serviceActive = [v \in Services |-> TRUE]
  /\ slots = [t \in Slots |-> [capacity |-> 1, bookedCount |-> 0]]
  /\ bookings = <<>>
  /\ pc = [p \in Procs |-> "idle"]
  /\ req = [p \in Procs |-> NoReq]
  /\ response = "none"
  /\ operatingHours = defaultHours
  /\ tzOffset = 0
  /\ slotRows = EmptyBag
  /\ slotDeleted = {}
  /\ notifications = <<>>
  /\ deployment = "live"
  /\ catalog = Services
  /\ userRoles = InitialRoles
  /\ AccountsInit

ConcNext == \E p \in Procs : Begin(p) \/ Commit(p)

ConcSpec == ConcInit /\ [][ConcNext]_vars

\* The booking handlers, one request at a time, on an approved salon with
\* three slots and two active services.
WideInit ==
  /\ salonStatus = [s \in Salons |-> "approved"]
  /\ serviceActive = [v \in WideServices |-> TRUE]
  /\ slots = [t \in WideSlots |-> [capacity |-> 1, bookedCount |-> 0]]
  /\ bookings = <<>>
  /\ pc = [p \in Procs |-> "idle"]
  /\ req = [p \in Procs |-> NoReq]
  /\ response = "none"
  /\ operatingHours = defaultHours
  /\ tzOffset = 0
  /\ slotRows = EmptyBag
  /\ slotDeleted = {}
  /\ notifications = <<>>
  /\ deployment = "live"
  /\ catalog = WideServices
  /\ userRoles = InitialRoles
  /\ AccountsInit

WideRequest(p) ==
  \/ \E a \in Customers, s \in Salons, v \in WideServices, t \in WideSlots :
       Create(p, a, s, v, t)
  \/ \E a \in ConcActors, b \in BookingIds : Cancel(p, a, b)
  \/ \E a \in ConcActors, b \in BookingIds, n \in BOOLEAN :
       Complete(p, a, b, n)
  \/ \E a \in ConcActors, b \in BookingIds, st \in BOOLEAN,
        v \in WideServices \cup {NoId}, t \in WideSlots \cup {NoId} :
       Update(p, a, b, st, v, t)

WideNext == WideRequest(Server)

WideSpec == WideInit /\ [][WideNext]_vars

\* Slot generation: the dates, durations, hours and server time zones
\* explored.  Dates 3 and 4 are sunday 4 and monday 5 January 1970; a range
\* that ends at date 2 is empty.
GenDates == {3, 4}
GenDurations == {20, 30}
GenOffsets == {-300, 0, 120}

\* Open from 09:00 to close on every weekday ...
OpenEveryDay(close) ==
  [d \in {daysOfWeek[i] : i \in 1..7} |->
     [open |-> HM(9, 0), close |-> close, closed |-> FALSE]]

\* ... except monday, whose entry is missing, marked closed, holds words, or
\* holds an empty open string.
GenHours ==
  { [d \in (DOMAIN OpenEveryDay(HM(10, 0))) \ {"monday"} |->
       OpenEveryDay(HM(10, 0))[d]],
    [OpenEveryDay(HM(9, 45)) EXCEPT !["monday"].closed = TRUE],
    [OpenEveryDay(HM(8, 30)) EXCEPT !["monday"].open = Word,
                                    !["monday"].close = Word],
    [OpenEveryDay(HM(10, 0)) EXCEPT !["monday"].open = EmptyString] }

GenInit ==
  /\ salonStatus = [s \in Salons |-> "approved"]
  /\ serviceActive = [v \in Services |-> TRUE]
  /\ slots = [t \in Slots |-> [capacity |-> 1, bookedCount |-> 0]]
  /\ bookings = <<>>
  /\ pc = [p \in Procs |-> "idle"]
  /\ req = [p \in Procs |-> NoReq]
  /\ response = "none"
  /\ operatingHours \in GenHours
  /\ tzOffset \in GenOffsets
  /\ slotRows = EmptyBag
  /\ slotDeleted = {}
  /\ notifications = <<>>
  /\ deployment = "live"
  /\ catalog = Services
  /\ userRoles = InitialRoles
  /\ AccountsInit

\* Generation requests of concurrent processes, interleaved at their awaits.
GenNext ==
  \E p \in Procs :
    \/ \E a \in {"m1", "sa"}, s \in Salons, startDate \in GenDates,
          endDate \in GenDates \cup {2}, duration \in GenDurations :
         GenerateBegin(p, a, s, startDate, endDate, duration, 1)
    \/ GenerateLookup(p)
    \/ GenerateDay(p)
    \/ GenerateExit(p)
    \/ GenerateCommit(p)

GenSpec == GenInit /\ [][GenNext]_vars

\* Every handler that can take a step eventually takes one.
FairGenSpec == GenSpec /\ \A p \in Procs : WF_vars(GenerateDay(p) \/ GenerateExit(p))

\* Create requests of concurrent processes and the outcomes of their
\* confirmation tasks, for every deployment of the server.
Deployments == {"development", "unconfigured", "live"}

NotifyInit ==
  /\ salonStatus = [s \in Salons |-> "approved"]
  /\ serviceActive = [v \in Services |-> TRUE]
  /\ slots = [t \in Slots |-> [capacity |-> 1, bookedCount |-> 0]]
  /\ bookings = <<>>
  /\ pc = [p \in Procs |-> "idle"]
  /\ req = [p \in Procs |-> NoReq]
  /\ response = "none"
  /\ operatingHours = defaultHours
  /\ tzOffset = 0
  /\ slotRows = EmptyBag
  /\ slotDeleted = {}
  /\ notifications = <<>>
  /\ deployment \in Deployments
  /\ catalog = Services
  /\ userRoles = InitialRoles
  /\ AccountsInit

NotifyNext ==
  \/ \E p \in Procs :
       \/ \E a \in Customers, s \in Salons, v \in Services, t \in Slots :
            CreateBegin(p, a, s, v, t)
       \/ CreateCommit(p)
       \/ CreateAbort(p)
  \/ \E i \in BookingIds : TwilioDelivers(i) \/ TwilioFails(i)

NotifySpec == NotifyInit /\ [][NotifyNext]_vars

\* The requests that manage a salon's services and slots, one process
\* running them step by step, sent by every kind of principal; the salon is
\* open 09:00-10:00 every day.
Authenticated == Principals \ {"anon"}

CatalogInit ==
  /\ salonStatus = [s \in Salons |-> "approved"]
  /\ serviceActive = [v \in Services |-> TRUE]
  /\ slots = [t \in Slots |-> [capacity |-> 1, bookedCount |-> 0]]
  /\ bookings = <<>>
  /\ pc = [p \in Procs |-> "idle"]
  /\ req = [p \in Procs |-> NoReq]
  /\ response = "none"
  /\ operatingHours = OpenEveryDay(HM(10, 0))
  /\ tzOffset = 0
  /\ slotRows = EmptyBag
  /\ slotDeleted = {}
  /\ notifications = <<>>
  /\ deployment = "live"
  /\ catalog = Services
  /\ userRoles = InitialRoles
  /\ AccountsInit

CatalogNext ==
  \/ \E a \in Principals, s \in Salons, v \in NewServices :
       CreateService(Server, a, s, v)
  \/ \E a \in Authenticated, s \in Salons, v \in Services, on \in BOOLEAN :
       UpdateService(Server, a, s, v, on)
  \/ \E a \in Authenticated, s \in Salons, v \in Services \cup NewServices :
       DeleteService(Server, a, s, v)
  \/ \E a \in Authenticated, s \in Salons, date \in GenDates :
       GenerateBegin(Server, a, s, date, date, 30, 1)
  \/ GenerateLookup(Server)
  \/ GenerateDay(Server)
  \/ GenerateExit(Server)
  \/ GenerateCommit(Server)
  \/ \E a \in Authenticated, s \in Salons, t \in Slots, c \in 1..MaxCapacity :
       UpdateSlotCapacity(Server, a, s, t, c)
  \/ \E a \in Authenticated, s \in Salons, t \in Slots :
       DeleteBegin(Server, a, s, t)
  \/ DeleteCommit(Server)

CatalogSpec == CatalogInit /\ [][CatalogNext]_vars

\* Role requests of every authenticated actor on the roles of two users,
\* one request at a time.
RoleTargets == {"u1", "u2"}

RolesInit == ConcInit

RolesNext ==
  \E a \in Actors, userId \in RoleTargets, role \in RoleNames,
     action \in {"add", "remove"} :
    ManageRole(Server, a, userId, role, action)

RolesSpec == RolesInit /\ [][RolesNext]_vars

\* Create, cancel and delete-slot requests of concurrent processes,
\* interleaved at their awaits, on an approved salon.
DeleteInit == ConcInit

DeleteNext ==
  \E p \in Procs :
    \/ \E a \in Customers, s \in Salons, v \in Services, t \in Slots :
         CreateBegin(p, a, s, v, t)
    \/ CreateCommit(p)
    \/ CreateAbort(p)
    \/ \E a \in ConcActors, b \in BookingIds : CancelBegin(p, a, b)
    \/ CancelCommit(p)
    \/ \E a \in {"m1", "sa"}, s \in Salons, t \in Slots : DeleteBegin(p, a, s, t)
    \/ DeleteCommit(p)

DeleteSpec == DeleteInit /\ [][DeleteNext]_vars

\* ... and reschedule requests of the salon's staff with them.
SlotRaceNext ==
  \/ DeleteNext
  \/ \E p \in Procs :
       \/ \E b \in BookingIds, t \in Slots :
            UpdateBegin(p, "m1", b, FALSE, NoId, t)
       \/ UpdateCommit(p)

SlotRaceSpec == DeleteInit /\ [][SlotRaceNext]_vars

\* The access policy applied to every payload: any set of roles, any set of
\* memberships of two salons, and the request without a payload.
MembershipRoles == {"salon_admin", "salon_staff"}
PolicySalons == {"s1", "s2"}

ClaimSets ==
  {NoUser} \cup
  [authenticated : {TRUE},
   roles : SUBSET RoleNames,
   salonMemberships : SUBSET [salonId : PolicySalons, role : MembershipRoles]]

\* A request has arrived at the server with its payload attached.
PolicyInit ==
  /\ salonStatus = [s \in Salons |-> "approved"]
  /\ serviceActive = [v \in Services |-> TRUE]
  /\ slots = [t \in Slots |-> [capacity |-> 1, bookedCount |-> 0]]
  /\ bookings = <<>>
  /\ pc = [p \in Procs |-> "idle"]
  /\ \E user \in ClaimSets :
       req = [p \in Procs |->
                IF p = Server THEN [op |-> "authorize", user |-> user]
                ELSE NoReq]
  /\ response = "none"
  /\ operatingHours = defaultHours
  /\ tzOffset = 0
  /\ slotRows = EmptyBag
  /\ slotDeleted = {}
  /\ notifications = <<>>
  /\ deployment = "live"
  /\ catalog = Services
  /\ userRoles = InitialRoles
  /\ AccountsInit

\* The handler asks the three checks about the request, for every salon.
Authorize(p) ==
  /\ pc[p] = "idle"
  /\ req[p].op = "authorize"
  /\ pc' = [pc EXCEPT ![p] = "authorized"]
  /\ req' = [req EXCEPT ![p] =
       [op |-> "authorize", user |-> req[p].user,
        superAdmin |-> userIsSuperAdmin(req[p].user),
        salonAdmin |->
          [s \in PolicySalons |-> userIsSalonAdmin(req[p].user, s)],
        salonStaff |->
          [s \in PolicySalons |-> userIsSalonStaff(req[p].user, s)]]]
  /\ UNCHANGED <<store, calendar, slotDeleted, outbox, registry, accounts, response>>

PolicyNext == Authorize(Server)

PolicySpec == PolicyInit /\ [][PolicyNext]_vars

\* Salon admins remove their own memberships, in either salon, their
\* requests interleaved at the awaits.
SalonAdmins == {"a1", "a2", "u2"}

StaffInit == ConcInit

StaffNext ==
  \E p \in Procs :
    \/ \E a \in SalonAdmins, s \in PolicySalons, t \in PolicySalons :
         RemoveBegin(p, a, s, <<a, t>>)
    \/ RemoveCount(p)
    \/ RemoveCommit(p)

StaffSpec == StaffInit /\ [][StaffNext]_vars

\* Two approved salons: s1 with the slots and the service of the other
\* specifications, s2 with one slot and one service. Bookings are placed,
\* rescheduled and cancelled and slots are deleted, one request at a time,
\* with any salon, service and slot id in the body or the path; the staff
\* requests come from m1 (staff of s1), a1 (admin of s1) and u2 (admin of s2).
TenantSlots == Slots \cup ForeignSlots
TenantServices == Services \cup ForeignServices
TenantStaff == {"m1", "a1", "u2"}

TenantInit ==
  /\ salonStatus = [s \in PolicySalons |-> "approved"]
  /\ serviceActive = [v \in TenantServices |-> TRUE]
  /\ slots = [t \in TenantSlots |-> [capacity |-> 1, bookedCount |-> 0]]
  /\ bookings = <<>>
  /\ pc = [p \in Procs |-> "idle"]
  /\ req = [p \in Procs |-> NoReq]
  /\ response = "none"
  /\ operatingHours = defaultHours
  /\ tzOffset = 0
  /\ slotRows = EmptyBag
  /\ slotDeleted = {}
  /\ notifications = <<>>
  /\ deployment = "live"
  /\ catalog = TenantServices
  /\ userRoles = InitialRoles
  /\ AccountsInit

TenantNext ==
  \/ \E a \in Customers, s \in PolicySalons, v \in TenantServices,
        t \in TenantSlots :
       Create(Server, a, s, v, t)
  \/ \E a \in Customers \cup TenantStaff, b \in BookingIds :
       Cancel(Server, a, b)
  \/ \E a \in TenantStaff, b \in BookingIds,
        v \in TenantServices \cup {NoId}, t \in TenantSlots \cup {NoId} :
       Update(Server, a, b, FALSE, v, t)
  \/ \E a \in TenantStaff, s \in PolicySalons, t \in TenantSlots :
       DeleteBegin(Server, a, s, t)
  \/ DeleteCommit(Server)

TenantSpec == TenantInit /\ [][TenantNext]_vars

\* The store of an approved salon, without the account rows.
ApprovedSalonInit ==
  /\ salonStatus = [s \in Salons |-> "approved"]
  /\ serviceActive = [v \in Services |-> TRUE]
  /\ slots = [t \in Slots |-> [capacity |-> 1, bookedCount |-> 0]]
  /\ bookings = <<>>
  /\ pc = [p \in Procs |-> "idle"]
  /\ req = [p \in Procs |-> NoReq]
  /\ response = "none"
  /\ operatingHours = defaultHours
  /\ tzOffset = 0
  /\ slotRows = EmptyBag
  /\ slotDeleted = {}
  /\ notifications = <<>>
  /\ deployment = "live"
  /\ catalog = Services
  /\ userRoles = InitialRoles

\* Status requests on two pending payments of s1 (one and two months paid)
\* and on an id no payment has, by the seeded salon admin, the super admin
\* and a customer, interleaved at the awaits. The due date starts unset or
\* on the last day of January; new Date() is the 20th of January.
PaymentActors == {"a2", "sa", "u1"}
RequestedPayments == PaymentIds \cup {"pay9"}
DueDates == {NoDate, Date(0, 31)}
Clock == {Date(0, 20)}

PendingPayment(months) ==
  [salonId |-> "s1", monthsPaid |-> months, status |-> "pending",
   verifiedBy |-> NoId]

PaymentInit ==
  /\ ApprovedSalonInit
  /\ memberships = InitialMemberships
  /\ payments = [i \in PaymentIds |->
                   IF i = "pay1" THEN PendingPayment(1) ELSE PendingPayment(2)]
  /\ nextDueDate \in [Salons -> DueDates]
  /\ otpSession = FreshSession
  /\ users = {SessionPhone}
  /\ history = NoHistory

PaymentNext ==
  \E p \in Procs :
    \/ \E a \in PaymentActors, id \in RequestedPayments,
          status \in PaymentStatuses :
         StatusBegin(p, a, id, status)
    \/ StatusFind(p)
    \/ StatusUpdate(p)
    \/ \E now \in Clock : StatusExtend(p, now)

PaymentSpec == PaymentInit /\ [][PaymentNext]_vars

\* Verify requests for one open OTP session, with either phone, token, code
\* and mode, interleaved at the awaits; the session's phone has a user row
\* or none.
Modes == {"login", "signup"}

OtpInit ==
  /\ ApprovedSalonInit
  /\ memberships = InitialMemberships
  /\ payments = <<>>
  /\ nextDueDate = [s \in Salons |-> NoDate]
  /\ otpSession = FreshSession
  /\ users \in {{}, {SessionPhone}}
  /\ history = NoHistory

OtpNext ==
  \/ \E p \in Procs :
       \/ \E phone \in Phones, otp \in Codes, token \in Tokens,
             mode \in Modes :
            VerifyBegin(p, phone, otp, token, mode)
       \/ VerifyCompare(p)
       \/ VerifyUser(p)
       \/ VerifyCreate(p)
  \/ Expire

OtpSpec == OtpInit /\ [][OtpNext]_vars

TypeOK ==
  /\ salonStatus \in [Salons -> SalonStatuses]
  /\ serviceActive \in [Services -> BOOLEAN]
  /\ \A t \in Slots : slots[t].capacity \in 1..MaxCapacity
  /\ CountInRange(slots)
  /\ Len(bookings) <= MaxBookings
  /\ \A b \in 1..Len(bookings) : bookings[b].status \in BookingStatuses

\* ------------------------------------------------------------------ claims
Existing == 1..Len(bookings)

\* Bookings that reference slot t and whose status is booked or in_progress.
ActiveAt(t) ==
  Cardinality({b \in Existing :
                 /\ bookings[b].slotId = t
                 /\ bookings[b].status \in {"booked", "in_progress"}})

\* Bookings that reference slot t and whose status is not cancelled.
HeldAt(bk, t) ==
  Cardinality({b \in 1..Len(bk) :
                 bk[b].slotId = t /\ bk[b].status # "cancelled"})

CountsHeld(sl, bk) == \A t \in Slots : sl[t].bookedCount = HeldAt(bk, t)

\* The step gives a cancelled booking another slot.
MovesCancelledBooking ==
  \E b \in Existing :
    /\ bookings[b].status = "cancelled"
    /\ bookings'[b].slotId # bookings[b].slotId

\* C1, as stated: in every state reached by requests executed one at a time,
\* every slot's bookedCount is the number of bookings on it that are booked
\* or in_progress.
C1_BookedCountEqualsActive ==
  \A t \in Slots : slots[t].bookedCount = ActiveAt(t)

\* What the handlers keep instead of C1: every request other than a slot
\* change of a cancelled booking keeps every slot's bookedCount equal to the
\* number of bookings on it that are not cancelled (complete and no-show
\* keep the unit consumed).
C1_BookedCountEqualsNotCancelled ==
  [][(CountsHeld(slots, bookings) /\ ~MovesCancelledBooking)
       => CountsHeld(slots', bookings')]_vars

\* A completed (or no-show) booking still holds its unit of its slot.
C1_Witness ==
  \E b \in Existing :
    /\ bookings[b].status \in {"completed", "no_show"}
    /\ slots[bookings[b].slotId].bookedCount = 1
    /\ ActiveAt(bookings[b].slotId) = 0
    /\ CountsHeld(slots, bookings)

\* C2: every slot satisfies bookedCount <= capacity in every reachable state.
C2_BookedCountWithinCapacity ==
  \A t \in Slots : slots[t].bookedCount <= slots[t].capacity

\* C3: every slot satisfies bookedCount >= 0 in every reachable state.
C3_BookedCountNonNegative ==
  \A t \in Slots : slots[t].bookedCount >= 0

\* C4: whatever the interleaving of concurrent create requests, a create
\* transaction commits only into a free unit of its slot, so no more
\* requests succeed than the slot had free units.
C4_CreateCommitsIntoFreeUnit ==
  [][\A p \in Procs :
       (pc[p] = "create_tx" /\ pc'[p] = "idle" /\ response' = "ok")
         => slots[req[p].slotId].bookedCount < slots[req[p].slotId].capacity]_vars

\* C5: a create request against a slot whose bookedCount equals its capacity
\* fails, creates no booking and leaves the counters unchanged; the error is
\* the slot-full error when the request passes the salon and service checks.
C5_FullSlotRejectsCreate ==
  [][\A a \in Customers, s \in Salons, v \in Services, t \in Slots :
       (Create(Server, a, s, v, t) /\ slots[t].bookedCount = slots[t].capacity)
         => /\ response' \in {"Salon unavailable", "Service unavailable", "Slot full"}
            /\ bookings' = bookings
            /\ slots' = slots
            /\ (salonStatus[s] = "approved" /\ serviceActive[v])
                 => response' = "Slot full"]_vars

\* A create request has just been refused on a slot that is full.
C5_Witness ==
  /\ response = "Slot full"
  /\ \E t \in Slots : slots[t].bookedCount = slots[t].capacity
  /\ Len(bookings) = 1

\* C6: a create request by a user who already has a booked booking on the
\* slot fails, creates no booking and leaves the counters unchanged.
C6_DuplicateCreateRejected ==
  [][\A a \in Customers, s \in Salons, v \in Services, t \in Slots :
       (/\ Create(Server, a, s, v, t)
        /\ \E b \in Existing :
             /\ bookings[b].userId = a
             /\ bookings[b].slotId = t
             /\ bookings[b].status = "booked")
         => /\ response' # "ok"
            /\ bookings' = bookings
            /\ slots' = slots]_vars

\* The actor may cancel booking b: its owner, a member of its salon, or a
\* super admin.
MayCancel(a, b) ==
  \/ bookings[b].userId = a
  \/ isSalonStaff(a, bookings[b].salonId)
  \/ isSuperAdmin(a)

\* C7: with cancel requests executed one after another, a permitted cancel of
\* a booked booking succeeds, sets it cancelled and takes exactly 1 from its
\* slot's bookedCount (no other slot changes); a cancel of a booking that is
\* already cancelled fails and changes nothing; and a cancelled booking stays
\* cancelled, so every later cancel is of the second kind.
C7_CancelReleasesExactlyOnce ==
  [][/\ \A a \in Actors, b \in Existing :
          Cancel(Server, a, b) =>
            IF bookings[b].status = "booked" /\ MayCancel(a, b)
              THEN /\ response' = "ok"
                   /\ bookings'[b].status = "cancelled"
                   /\ slots'[bookings[b].slotId].bookedCount
                        = slots[bookings[b].slotId].bookedCount - 1
                   /\ \A t \in Slots \ {bookings[b].slotId} : slots'[t] = slots[t]
              ELSE /\ response' # "ok"
                   /\ bookings' = bookings
                   /\ slots' = slots
     /\ \A b \in Existing :
          bookings[b].status = "cancelled" => bookings'[b].status = "cancelled"]_vars

\* A cancelled booking whose unit went back to its slot, after a further
\* request on it was refused for its status.
C7_Witness ==
  \E b \in Existing :
    /\ bookings[b].status = "cancelled"
    /\ slots[bookings[b].slotId].bookedCount = 0
    /\ response = "Invalid status"
    /\ Len(bookings) = 1

\* C8: a reschedule whose target slot is full fails and leaves both slots'
\* counters and the booking unchanged.
C8_RescheduleToFullSlotRejected ==
  [][\A a \in Actors, b \in Existing, st \in BOOLEAN,
        v \in Services \cup {NoId}, t \in Slots :
       (/\ Update(Server, a, b, st, v, t)
        /\ t # bookings[b].slotId
        /\ slots[t].bookedCount = slots[t].capacity)
         => /\ response' # "ok"
            /\ bookings' = bookings
            /\ slots' = slots]_vars

\* C9: a create request for a salon that is pending, rejected or suspended
\* fails with the salon-unavailable error, creates no booking and changes
\* no slot.
C9_UnapprovedSalonRejectsCreate ==
  [][\A a \in Customers, s \in Salons, v \in Services, t \in Slots :
       (/\ Create(Server, a, s, v, t)
        /\ salonStatus[s] \in {"pending", "rejected", "suspended"})
         => /\ response' = "Salon unavailable"
            /\ bookings' = bookings
            /\ slots' = slots]_vars

\* A create request has just been refused on a suspended salon that already
\* took a booking while it was approved.
C9_Witness ==
  /\ response = "Salon unavailable"
  /\ \E s \in Salons : salonStatus[s] = "suspended"
  /\ Len(bookings) = 1
  /\ \E t \in Slots : slots[t].bookedCount = 0

\* The status changes of section 4.3.
AllowedTransitions ==
  {<<"booked", "in_progress">>, <<"booked", "cancelled">>,
   <<"booked", "completed">>, <<"booked", "no_show">>,
   <<"in_progress", "completed">>, <<"in_progress", "no_show">>}

\* C10: with requests executed one at a time, a booking is created booked,
\* every status change is an allowed one, cancel and start-service are
\* refused for a status other than booked, and complete is refused for a
\* status other than booked or in_progress: a step that answers ok or
\* changes a booking is none of these requests.
C10_StatusTransitions ==
  [][/\ \A b \in Existing :
          bookings'[b].status # bookings[b].status
            => <<bookings[b].status, bookings'[b].status>> \in AllowedTransitions
     /\ \A b \in (1..Len(bookings')) \ Existing : bookings'[b].status = "booked"
     /\ (response' = "ok" \/ bookings' # bookings) =>
          \A b \in Existing :
            /\ bookings[b].status # "booked" =>
                 /\ \A a \in Actors : ~Cancel(Server, a, b)
                 /\ \A a \in Actors, v \in Services \cup {NoId}, t \in Slots \cup {NoId} :
                      ~Update(Server, a, b, TRUE, v, t)
            /\ bookings[b].status \notin {"booked", "in_progress"} =>
                 \A a \in Actors, n \in BOOLEAN : ~Complete(Server, a, b, n)]_vars

\* One booking ended no_show and another was started, and the last request
\* was refused for the status of the booking it named.
C10_Witness ==
  /\ \E b1, b2 \in Existing :
       /\ bookings[b1].status = "no_show"
       /\ bookings[b2].status = "in_progress"
  /\ response = "Invalid status"

\* The statuses of section 4.3 that permit no further transition.
TerminalStatuses == {"completed", "cancelled", "no_show"}

\* C11: whatever the interleaving of concurrent cancel, complete/no-show and
\* start-service requests, a booking whose status is completed, cancelled or
\* no_show keeps that status in every later step.
C11_TerminalStatusIsFinal ==
  [][\A b \in Existing :
       bookings[b].status \in TerminalStatuses
         => bookings'[b].status = bookings[b].status]_vars

\* The change of slot t's bookedCount in the step.
CountDelta(t) == slots'[t].bookedCount - slots[t].bookedCount

\* The step changes the bookedCount of slot t by d and of no other slot.
OnlyCountChange(t, d) ==
  /\ CountDelta(t) = d
  /\ \A u \in Slots \ {t} : CountDelta(u) = 0

\* C12: under every interleaving, the step that inserts a booking is the
\* step that adds 1 to its slot's bookedCount; a create transaction that
\* fails writes neither; the step in which a cancel writes status cancelled
\* is the step that takes 1 from the bookedCount of the slot the cancel
\* read; and no step of a create or cancel request before its transaction
\* writes anything.
C12_CreateCancelAllOrNothing ==
  [][/\ Len(bookings') # Len(bookings) =>
          /\ Len(bookings') = Len(bookings) + 1
          /\ \A b \in Existing : bookings'[b] = bookings[b]
          /\ OnlyCountChange(bookings'[Len(bookings')].slotId, 1)
     /\ \A p \in Procs :
          (pc[p] = "create_tx" /\ pc'[p] = "idle") =>
            \/ /\ response' = "ok"
               /\ Len(bookings') = Len(bookings) + 1
               /\ bookings'[Len(bookings')].slotId = req[p].slotId
            \/ /\ response' # "ok"
               /\ UNCHANGED store
     /\ \A p \in Procs :
          (pc[p] = "cancel_tx" /\ pc'[p] = "idle") =>
            /\ bookings'[req[p].bookingId].status = "cancelled"
            /\ \A b \in Existing \ {req[p].bookingId} : bookings'[b] = bookings[b]
            /\ OnlyCountChange(req[p].slotId, -1)
     /\ \A p \in Procs :
          (pc[p] = "idle" /\ pc'[p] # "idle") => UNCHANGED store]_vars

\* A booking was cancelled and its unit returned, and after that a create
\* transaction failed and left the store as it was.
C12_Witness ==
  /\ response = "Internal server error"
  /\ Len(bookings) = 1
  /\ bookings[1].status = "cancelled"
  /\ slots[bookings[1].slotId].bookedCount = 0

\* The sum of bookedCount over the slots in ts.
RECURSIVE SumCounts(_, _)
SumCounts(sl, ts) ==
  IF ts = {} THEN 0
  ELSE LET t == CHOOSE u \in ts : TRUE
       IN sl[t].bookedCount + SumCounts(sl, ts \ {t})

\* C13: a successful update that names a slot other than the booking's takes
\* 1 from the old slot's bookedCount, adds 1 to the new slot's, leaves every
\* other slot and every capacity as it was, sets the booking's slotId (and
\* its serviceId when one is given, its status only when the service is
\* started) and touches no other booking, all in one step; the sum of
\* bookedCount over the slots is unchanged.
C13_RescheduleMovesOneUnit ==
  [][\A a \in ConcActors, b \in Existing, st \in BOOLEAN,
        v \in WideServices \cup {NoId}, t \in WideSlots :
       (/\ response' = "ok"
        /\ t # bookings[b].slotId
        /\ Update(Server, a, b, st, v, t))
         => /\ CountDelta(bookings[b].slotId) = -1
            /\ CountDelta(t) = 1
            /\ \A u \in WideSlots \ {bookings[b].slotId, t} : slots'[u] = slots[u]
            /\ \A u \in WideSlots : slots'[u].capacity = slots[u].capacity
            /\ SumCounts(slots', WideSlots) = SumCounts(slots, WideSlots)
            /\ bookings'[b].slotId = t
            /\ bookings'[b].serviceId
                 = IF v # NoId THEN v ELSE bookings[b].serviceId
            /\ bookings'[b].status
                 = IF st THEN "in_progress" ELSE bookings[b].status
            /\ bookings'[b].userId = bookings[b].userId
            /\ bookings'[b].salonId = bookings[b].salonId
            /\ \A c \in Existing \ {b} : bookings'[c] = bookings[c]]_vars

\* Two booked bookings share slot t3 after one was moved there with a new
\* service, and t2 kept its state.
C13_Witness ==
  /\ Len(bookings) = 2
  /\ bookings[1].slotId = "t3" /\ bookings[1].serviceId = "v2"
  /\ bookings[2].slotId = "t3" /\ bookings[2].serviceId = "v1"
  /\ bookings[1].status = "booked" /\ bookings[2].status = "booked"
  /\ slots["t1"].bookedCount = 0
  /\ slots["t2"].bookedCount = 0
  /\ slots["t3"].bookedCount = 2
  /\ response = "ok"

\* C14: an update request that names a slot or a service for a booking whose
\* status is not booked is rejected and changes no booking and no slot.
C14_RescheduleOnlyWhileBooked ==
  [][\A a \in Actors, b \in Existing, st \in BOOLEAN,
        v \in Services \cup {NoId}, t \in Slots \cup {NoId} :
       (/\ bookings[b].status # "booked"
        /\ (v # NoId \/ t # NoId)
        /\ Update(Server, a, b, st, v, t))
         => /\ response' # "ok"
            /\ bookings' = bookings
            /\ slots' = slots]_vars

\* C15: a create request and an update request that name a service whose
\* isActive is false are rejected and leave the bookings as they were.
C15_InactiveServiceNeverAttached ==
  [][/\ \A a \in Customers, s \in Salons, v \in Services, t \in Slots :
          (~serviceActive[v] /\ Create(Server, a, s, v, t))
            => response' # "ok" /\ bookings' = bookings
     /\ \A a \in Actors, b \in Existing, st \in BOOLEAN,
           v \in Services, t \in Slots \cup {NoId} :
          (~serviceActive[v] /\ Update(Server, a, b, st, v, t))
            => response' # "ok" /\ bookings' = bookings]_vars

\* The weekday entry the day loop of process p is about to use.
LoopConfig(p) ==
  req[p].operatingHours[daysOfWeek[getDay(req[p].currentDate) + 1]]

\* Process p runs one iteration of its day loop in the step.
DayIteration(p) ==
  /\ pc[p] = "generate_loop"
  /\ pc'[p] = "generate_loop"
  /\ req'[p] # req[p]

\* The rows the step adds to process p's slotsToCreate.
RowsAdded(p) ==
  SubSeq(req'[p].slotsToCreate,
         Len(req[p].slotsToCreate) + 1, Len(req'[p].slotsToCreate))

\* C16: for a day that is open from o to c (minutes since midnight) the
\* generator emits floor((c - o) / D) slots when c >= o and none otherwise;
\* the k-th slot is [o + k*D, o + (k+1)*D), counting from 0, so the slots do
\* not overlap, each ends at or before c, and one more would end after c.
C16_DaySlotsFillTheWindow ==
  [][\A p \in Procs :
       (/\ DayIteration(p)
        /\ OpenThatDay(req[p].operatingHours,
                       daysOfWeek[getDay(req[p].currentDate) + 1])
        /\ LoopConfig(p).open.kind = "hm"
        /\ LoopConfig(p).close.kind = "hm")
         => LET o == LoopConfig(p).open.h * 60 + LoopConfig(p).open.m
                c == LoopConfig(p).close.h * 60 + LoopConfig(p).close.m
                D == req[p].slotDurationMinutes
                N == IF c >= o THEN (c - o) \div D ELSE 0
            IN /\ Len(RowsAdded(p)) = N
               /\ \A k \in 0..(N - 1) :
                    /\ RowsAdded(p)[k + 1].startTime = o + k * D
                    /\ RowsAdded(p)[k + 1].endTime = o + (k + 1) * D
                    /\ RowsAdded(p)[k + 1].endTime <= c
               /\ \A j, k \in 1..N :
                    j < k => RowsAdded(p)[j].endTime <= RowsAdded(p)[k].startTime
               /\ c >= o => o + (N + 1) * D > c]_vars

\* A generation with D = 30 over one open day 09:00-10:00 holds exactly the
\* two slots 09:00-09:30 and 09:30-10:00, ready to be inserted.
C16_Witness ==
  \E p \in Procs :
    /\ pc[p] = "generate_tx"
    /\ req[p].slotDurationMinutes = 30
    /\ Len(req[p].slotsToCreate) = 2
    /\ req[p].slotsToCreate[1].startTime = 540
    /\ req[p].slotsToCreate[1].endTime = 570
    /\ req[p].slotsToCreate[2].startTime = 570
    /\ req[p].slotsToCreate[2].endTime = 600
    /\ req[p].slotsToCreate[1].date = req[p].slotsToCreate[2].date

\* The weekday name of a calendar date (1970-01-01 was a thursday).
WeekdayOf(date) == daysOfWeek[((date + 4) % 7) + 1]

\* The weekday entry is missing, marked closed, or has an open or close value
\* that is not an "HH:MM" time.
ClosedOrMalformed(hours, dayName) ==
  \/ dayName \notin DOMAIN hours
  \/ hours[dayName].closed
  \/ hours[dayName].open.kind # "hm"
  \/ hours[dayName].close.kind # "hm"

\* The dates from startDate to endDate in order (none when endDate is
\* earlier).
DateRange(startDate, endDate) ==
  [i \in 1..(IF endDate >= startDate THEN endDate - startDate + 1 ELSE 0)
     |-> startDate + i - 1]

\* When process p leaves its day loop: it visited every date of the range
\* once, every row's date is in the range, and a date whose weekday entry is
\* missing, closed or malformed has no row.
GeneratedForRange(p) ==
  pc[p] = "generate_tx" =>
    /\ req[p].visited = DateRange(req[p].startDate, req[p].endDate)
    /\ \A i \in 1..Len(req[p].slotsToCreate) :
         /\ req[p].slotsToCreate[i].date >= req[p].startDate
         /\ req[p].slotsToCreate[i].date <= req[p].endDate
         /\ ~ClosedOrMalformed(req[p].operatingHours,
                               WeekdayOf(req[p].slotsToCreate[i].date))

\* C17: the day loop visits every calendar day of [startDate, endDate]
\* exactly once, no generated slot has a date outside the range, and a day
\* whose weekday entry is missing, closed or malformed contributes no slot.
C17_RangeVisitedOnceClosedDaysEmpty ==
  \A p \in Procs : GeneratedForRange(p)

\* What holds instead of C17: the same on a server whose local time is not
\* behind UTC.
C17_HoldsWhenNotBehindUTC ==
  tzOffset >= 0 => \A p \in Procs : GeneratedForRange(p)

\* The day loop ends: a generation that entered its loop leaves it.
C17_LoopTerminates ==
  \A p \in Procs : (pc[p] = "generate_loop") ~> (pc[p] # "generate_loop")

\* C18: whatever generation requests ran, re-runs and concurrent ones
\* included, no two slot rows of a salon have the same date and startTime.
C18_SlotKeysUnique ==
  \A r1 \in BagToSet(slotRows) :
    /\ CopiesIn(r1, slotRows) = 1
    /\ \A r2 \in BagToSet(slotRows) :
         (/\ r1.salonId = r2.salonId
          /\ r1.date = r2.date
          /\ r1.startTime = r2.startTime) => r1 = r2

\* Slots were generated, and a later generation that overlapped them was
\* refused.
C18_Witness ==
  /\ BagCardinality(slotRows) >= 2
  /\ response = "Internal server error"

Outsider(a, b) ==
  /\ bookings[b].userId # a
  /\ \A m \in salonMemberships[a] : m.salonId # bookings[b].salonId
  /\ "super_admin" \notin roles[a]

\* C20: a cancel request by an actor who is neither the booking's owner, nor
\* a member of the booking's salon, nor a super admin is rejected with the
\* permission error and changes no booking and no slot.
C20_OutsiderCannotCancel ==
  [][\A a \in Actors, b \in Existing :
       (Outsider(a, b) /\ Cancel(Server, a, b))
         => /\ response' = "Forbidden"
            /\ bookings' = bookings
            /\ slots' = slots]_vars

\* A request on a booked booking has just been refused for lack of
\* permission, and the booking still holds its unit.
C20_Witness ==
  /\ response = "Forbidden"
  /\ Len(bookings) = 1
  /\ bookings[1].status = "booked"
  /\ slots[bookings[1].slotId].bookedCount = 1
  /\ \E a \in Actors : Outsider(a, 1)

\* The actor holds a membership of the booking's salon or the super_admin
\* role.
MemberOrSuperAdmin(a, b) ==
  \/ "super_admin" \in roles[a]
  \/ \E m \in salonMemberships[a] : m.salonId = bookings[b].salonId

\* C21: no step that answers ok is a complete/no-show request or an update
\* request (start-service, reschedule) of an actor who is neither a member of
\* the booking's salon nor a super admin, the booking's owner included; and a
\* step that answers an error changes no booking and no slot.
C21_StaffOnlyOperations ==
  [][/\ response' # "ok" => bookings' = bookings /\ slots' = slots
     /\ response' = "ok" =>
          \A a \in Actors, b \in Existing :
            ~MemberOrSuperAdmin(a, b) =>
              /\ \A n \in BOOLEAN : ~Complete(Server, a, b, n)
              /\ \A st \in BOOLEAN, v \in Services \cup {NoId},
                    t \in Slots \cup {NoId} :
                   ~Update(Server, a, b, st, v, t)]_vars

\* A booking of u1, who is no member of its salon, was started by the staff,
\* and a later request on it was refused for lack of permission.
C21_Witness ==
  /\ response = "Forbidden"
  /\ Len(bookings) = 1
  /\ bookings[1].status = "in_progress"
  /\ ~MemberOrSuperAdmin(bookings[1].userId, 1)

\* C22: for every payload and every salon, isSalonAdmin implies isSalonStaff;
\* isSuperAdmin implies both for every salon; a request without a payload
\* satisfies none of the three; and a payload that has no super_admin role
\* and no membership of salon B is neither admin nor staff of B, whatever
\* its memberships of other salons.
C22_PolicyOrdering ==
  \A p \in Procs :
    pc[p] = "authorized" =>
      /\ \A s \in PolicySalons : req[p].salonAdmin[s] => req[p].salonStaff[s]
      /\ req[p].superAdmin
           <=> (req[p].user.authenticated /\ "super_admin" \in req[p].user.roles)
      /\ req[p].superAdmin =>
           \A s \in PolicySalons : req[p].salonAdmin[s] /\ req[p].salonStaff[s]
      /\ ~req[p].user.authenticated =>
           /\ ~req[p].superAdmin
           /\ \A s \in PolicySalons :
                ~req[p].salonAdmin[s] /\ ~req[p].salonStaff[s]
      /\ \A B \in PolicySalons :
           (/\ "super_admin" \notin req[p].user.roles
            /\ \A m \in req[p].user.salonMemberships : m.salonId # B)
             => ~req[p].salonAdmin[B] /\ ~req[p].salonStaff[B]

\* The checks were applied to a salon admin of s1 who is staff of no other
\* salon and no super admin: admin and staff of s1, neither of s2.
C22_Witness ==
  \E p \in Procs :
    /\ pc[p] = "authorized"
    /\ req[p].user.salonMemberships = {[salonId |-> "s1", role |-> "salon_admin"]}
    /\ req[p].user.roles = {"user", "salon_admin"}
    /\ req[p].salonAdmin["s1"] /\ req[p].salonStaff["s1"]
    /\ ~req[p].salonAdmin["s2"] /\ ~req[p].salonStaff["s2"]

\* The step resolves a confirmation task that was waiting.
TaskOutcome ==
  /\ Len(notifications') = Len(notifications)
  /\ notifications' # notifications

\* C23: in every deployment (notifications logged only, failing at once, or
\* sent and later delivered, failed or never answered) the step that commits
\* a create transaction inserts the request's booking, adds 1 to its slot's
\* bookedCount and answers ok; and the step in which a confirmation task
\* succeeds or fails changes no booking, no slot, no handler and no response.
C23_NotificationNeverAffectsCreate ==
  [][/\ \A p \in Procs :
          (pc[p] = "create_tx" /\ pc'[p] = "idle" /\ bookings' # bookings) =>
            /\ response' = "ok"
            /\ bookings' = Append(bookings, NewBooking(req[p]))
            /\ OnlyCountChange(req[p].slotId, 1)
     /\ TaskOutcome => UNCHANGED <<store, pc, req, response>>]_vars

\* The notification of a booking failed after the caller got its answer, and
\* the booking and its unit are in place.
C23_Witness ==
  /\ deployment = "live"
  /\ response = "ok"
  /\ \E i \in 1..Len(notifications) :
       /\ notifications[i].state = "failed"
       /\ bookings[notifications[i].bookingId].status = "booked"
       /\ slots[bookings[notifications[i].bookingId].slotId].bookedCount = 1

\* C24: a confirmation task is started only in the step that commits its
\* request's booking and answers ok, one task for that booking; a create
\* request that is rejected, or whose transaction aborts, starts none, so
\* every task names a committed booking.
C24_NotificationOnlyAfterCommit ==
  [][/\ Len(notifications') # Len(notifications) =>
          /\ Len(notifications') = Len(notifications) + 1
          /\ Len(bookings') = Len(bookings) + 1
          /\ notifications'[Len(notifications')].bookingId = Len(bookings')
          /\ response' = "ok"
     /\ \A i \in 1..Len(notifications) :
          /\ notifications[i].bookingId \in 1..Len(bookings)
          /\ notifications'[i].bookingId = notifications[i].bookingId]_vars

\* One create committed and started its task, and the transaction of a later
\* create aborted without starting one.
C24_Witness ==
  /\ response = "Internal server error"
  /\ Len(bookings) = 1
  /\ Len(notifications) = 1
  /\ notifications[1].bookingId = 1

\* C25: a step that changes a slot (its bookedCount or its capacity) is no
\* complete/no-show request and no start-service request (an update with
\* serviceStarted that names no other slot), whoever sends it and whether it
\* succeeds or fails.
C25_StartAndCompleteLeaveSlots ==
  [][slots' # slots =>
       \A a \in Actors, b \in Existing :
         /\ \A n \in BOOLEAN : ~Complete(Server, a, b, n)
         /\ \A v \in Services \cup {NoId}, t \in {NoId, bookings[b].slotId} :
              ~Update(Server, a, b, TRUE, v, t)]_vars

\* One booking was started and the other completed, and each still holds
\* the unit of its slot.
C25_Witness ==
  /\ Len(bookings) = 2
  /\ bookings[1].status = "in_progress"
  /\ bookings[2].status = "completed"
  /\ bookings[1].slotId # bookings[2].slotId
  /\ \A t \in Slots : slots[t].bookedCount = 1 /\ slots[t].capacity = 1
  /\ response = "ok"

\* The principal is no salon admin of salon s and no super admin.
NoAdminOf(a, s) ==
  \/ a = "anon"
  \/ /\ "super_admin" \notin roles[a]
     /\ \A m \in salonMemberships[a] :
          ~(m.salonId = s /\ m.role = "salon_admin")

\* The step writes no service row, no slot and no slot row, and starts no
\* handler.
CatalogUntouched ==
  /\ UNCHANGED <<serviceActive, slots, slotRows, slotDeleted, catalog>>
  /\ pc' = pc

\* C26: a request to create, update or delete a service, to generate slots,
\* to edit a slot's capacity or to delete a slot, sent by a principal who is
\* neither salon admin of the salon nor super admin, is refused with the
\* permission error and writes nothing.
C26_CatalogChangesNeedSalonAdmin ==
  [][\A a \in Principals, s \in Salons :
       NoAdminOf(a, s) =>
         /\ \A v \in NewServices :
              CreateService(Server, a, s, v)
                => response' = "Forbidden" /\ CatalogUntouched
         /\ \A v \in Services, on \in BOOLEAN :
              UpdateService(Server, a, s, v, on)
                => response' = "Forbidden" /\ CatalogUntouched
         /\ \A v \in Services \cup NewServices :
              DeleteService(Server, a, s, v)
                => response' = "Forbidden" /\ CatalogUntouched
         /\ \A date \in GenDates :
              GenerateBegin(Server, a, s, date, date, 30, 1)
                => response' = "Forbidden" /\ CatalogUntouched
         /\ \A t \in Slots, c \in 1..MaxCapacity :
              UpdateSlotCapacity(Server, a, s, t, c)
                => response' = "Forbidden" /\ CatalogUntouched
         /\ \A t \in Slots :
              DeleteBegin(Server, a, s, t)
                => response' = "Forbidden" /\ CatalogUntouched]_vars

\* What holds instead of C26: the same for the five requests other than
\* create service.
C26_AllButCreateServiceNeedSalonAdmin ==
  [][\A a \in Authenticated, s \in Salons :
       NoAdminOf(a, s) =>
         /\ \A v \in Services, on \in BOOLEAN :
              UpdateService(Server, a, s, v, on)
                => response' = "Forbidden" /\ CatalogUntouched
         /\ \A v \in Services \cup NewServices :
              DeleteService(Server, a, s, v)
                => response' = "Forbidden" /\ CatalogUntouched
         /\ \A date \in GenDates :
              GenerateBegin(Server, a, s, date, date, 30, 1)
                => response' = "Forbidden" /\ CatalogUntouched
         /\ \A t \in Slots, c \in 1..MaxCapacity :
              UpdateSlotCapacity(Server, a, s, t, c)
                => response' = "Forbidden" /\ CatalogUntouched
         /\ \A t \in Slots :
              DeleteBegin(Server, a, s, t)
                => response' = "Forbidden" /\ CatalogUntouched]_vars

\* The actor is a super admin, or a salon admin and the role is salon_staff.
MayManageRole(a, role) ==
  \/ "super_admin" \in roles[a]
  \/ /\ role = "salon_staff"
     /\ \E m \in salonMemberships[a] : m.role = "salon_admin"

\* C27: a request to add or remove a role sent by an actor who is neither a
\* super admin nor a salon admin acting on the salon_staff role does not
\* succeed and changes no role row; so an actor with the user role only adds
\* no role to any user.
C27_RoleChangesNeedAdmin ==
  [][\A a \in Actors, userId \in RoleTargets, role \in RoleNames,
        action \in {"add", "remove"} :
       (~MayManageRole(a, role) /\ ManageRole(Server, a, userId, role, action))
         => response' # "ok" /\ userRoles' = userRoles]_vars

\* What holds instead of C27: only the super_admin role is reserved, to
\* super admins.
C27_SuperAdminRoleIsReserved ==
  [][\A a \in Actors, userId \in RoleTargets, action \in {"add", "remove"} :
       ("super_admin" \notin roles[a]
          /\ ManageRole(Server, a, userId, "super_admin", action))
         => response' = "Forbidden" /\ userRoles' = userRoles]_vars

\* The bookings of user a on slot t that are booked or in_progress.
ActiveOf(a, t) ==
  {b \in Existing :
     /\ bookings[b].userId = a
     /\ bookings[b].slotId = t
     /\ bookings[b].status \in {"booked", "in_progress"}}

\* C28: in every reachable state, every user has at most one booking that is
\* booked or in_progress on each slot.
C28_OneActiveBookingPerUserAndSlot ==
  \A a \in Actors, t \in Slots : Cardinality(ActiveOf(a, t)) <= 1

\* C29: whatever the interleaving of concurrent cancel requests on a booking,
\* a cancel transaction commits, and takes 1 from the slot's bookedCount,
\* only while the booking is not yet cancelled: one release per booking.
C29_ConcurrentCancelsReleaseOnce ==
  [][\A p \in Procs :
       (pc[p] = "cancel_tx" /\ pc'[p] = "idle")
         => bookings[req[p].bookingId].status # "cancelled"]_vars

\* C30: no step of a generation request, successful or refused, changes a
\* slot that exists: every slot row in place (salon, date, start and end
\* time, capacity) is still there once, no slot is deleted, and capacity and
\* bookedCount of the booked slots are as before.
C30_GenerationKeepsExistingSlots ==
  [][/\ \A r \in BagToSet(slotRows) : CopiesIn(r, slotRows') = CopiesIn(r, slotRows)
     /\ slots' = slots
     /\ slotDeleted' = slotDeleted]_vars

\* Two generations succeeded one after the other: the 20-minute slots of
\* one date and the 30-minute slots of another are both in place.
C30_Witness ==
  /\ response = "ok"
  /\ \E r1, r2 \in BagToSet(slotRows) :
       /\ r1.date # r2.date
       /\ r1.endTime - r1.startTime = 20
       /\ r2.endTime - r2.startTime = 30

\* C31: while salon admins remove their own memberships, in any
\* interleaving, every salon that had a salon_admin membership keeps at least
\* one: the removal of the only admin is rejected.
C31_SalonKeepsAnAdmin ==
  \A s \in PolicySalons : adminCount(s) >= 1

\* What does hold: a request that counted one admin is rejected and removes
\* nothing.
C31_OnlyAdminCountedIsRejected ==
  [][\A p \in Procs :
       (RemoveCount(p) /\ adminCount(req[p].salonId) <= 1)
         => (memberships' = memberships
             /\ response' = "Cannot remove the only admin")]_vars

\* C32: only an actor holding the super_admin role changes a payment's
\* status; a request of any other actor is answered 403 and changes neither
\* the payment nor the salon's nextDueDate.
C32_OnlySuperAdminSetsPaymentStatus ==
  [][\A p \in Procs :
       /\ (pc'[p] # pc[p] /\ pc[p] # "idle"
             /\ (payments' # payments \/ nextDueDate' # nextDueDate))
            => userIsSuperAdmin(reqUser(req[p].actor))
       /\ \A a \in PaymentActors, id \in RequestedPayments,
             status \in PaymentStatuses :
            (StatusBegin(p, a, id, status) /\ ~userIsSuperAdmin(reqUser(a)))
              => response' = "Forbidden"]_vars

\* What does hold: a status request gets past the role lookup, and writes,
\* only for an actor with a salon_admin role row; a request refused at the
\* lookup (the process stays idle) writes nothing.
C32_SalonAdminRoleSetsPaymentStatus ==
  [][\A p \in Procs :
       /\ (pc[p] = "idle" /\ pc'[p] # "idle")
            => <<req'[p].actor, "salon_admin">> \in userRoles
       /\ (pc'[p] # pc[p] /\ pc[p] # "idle"
             /\ (payments' # payments \/ nextDueDate' # nextDueDate))
            => <<req[p].actor, "salon_admin">> \in userRoles
       /\ pc' = pc => (payments' = payments /\ nextDueDate' = nextDueDate)]_vars

\* The due dates the salon's column stands for: its value, or the day of the
\* request when it is null.
DueBases(s) == IF nextDueDate[s] = NoDate THEN Clock ELSE {nextDueDate[s]}

\* C39: each payment extends its salon's nextDueDate at most once, and an
\* extension moves the due date by exactly the payment's monthsPaid (checked
\* for the days the target month has); a repeated or a concurrent
\* verification of the same payment does not extend a second time.
C39_PaymentExtendsDueDateOnce ==
  /\ [](\A i \in PaymentIds : history.extensions[i] <= 1)
  /\ [][\A p \in Procs :
          (pc[p] = "status_extend" /\ pc'[p] = "idle")
            => \E base \in DueBases(req[p].salonId) :
                 \/ base.day > DaysIn(base.month + req[p].monthsPaid)
                 \/ nextDueDate'[req[p].salonId] =
                      Date(base.month + req[p].monthsPaid, base.day)]_vars

C37_UsedSessionIsRefused ==
  [][\A p \in Procs :
       (otpSession.used /\ pc[p] = "idle" /\ pc' = pc /\ response' # response)
         => response' \in {"OTP already used", "Invalid session"}]_vars

\* C38: at most 3 codes are ever compared with the stored hash, and after 3
\* rejected codes every later verify request for the session is refused
\* without a comparison (with too-many-attempts while the session has not
\* expired), also with the correct code and also concurrently.
C38_AtMostThreeComparisons ==
  /\ [](history.compared <= 3)
  /\ [][\A p \in Procs :
          (history.rejected >= 3 /\ pc[p] = "idle")
            => /\ pc'[p] = "idle"
               /\ \A otp \in Codes, mode \in Modes :
                    (~otpSession.expired
                       /\ VerifyBegin(p, SessionPhone, otp, SessionToken, mode))
                      => response' = "Too many attempts"]_vars

\* What does hold: a request that reads attempts >= 3 is refused without a
\* comparison.
C38_LockedSessionIsRefused ==
  [][\A p \in Procs :
       (otpSession.attempts >= 3 /\ pc[p] = "idle") => pc'[p] = "idle"]_vars

\* A step that only edits a capacity: the handler answered 200 and wrote a
\* slot row but no booking row.
CapacityEdited(t) ==
  /\ response' = "ok"
  /\ bookings' = bookings
  /\ slots'[t] # slots[t]

\* C33: after a successful capacity edit the slot still satisfies
\* bookedCount <= capacity (checked for the slots that satisfied it before
\* the edit), and the edit leaves bookedCount unchanged.
C33_CapacityEditKeepsCountWithinCapacity ==
  [][\A t \in Slots :
       (CapacityEdited(t) /\ slots[t].bookedCount <= slots[t].capacity
          /\ \E a \in Actors, s \in Salons, c \in 1..MaxCapacity :
               UpdateSlotCapacity(Server, a, s, t, c))
         => /\ slots'[t].bookedCount <= slots'[t].capacity
            /\ slots'[t].bookedCount = slots[t].bookedCount]_vars

\* What does hold: a capacity edit leaves bookedCount unchanged.
C33_CapacityEditKeepsBookedCount ==
  [][\A t \in Slots :
       (CapacityEdited(t)
          /\ \E a \in Actors, s \in Salons, c \in 1..MaxCapacity :
               UpdateSlotCapacity(Server, a, s, t, c))
         => slots'[t].bookedCount = slots[t].bookedCount]_vars

\* The salons an actor is a member of.
MemberSalons(a) == {m.salonId : m \in salonMemberships[a]}

\* A request of actor a on a booking ran in this step.
StaffRequest(a) ==
  \E b \in BookingIds :
    \/ Cancel(Server, a, b)
    \/ \E v \in TenantServices \cup {NoId}, t \in TenantSlots \cup {NoId} :
         Update(Server, a, b, FALSE, v, t)

\* C34: the slot and the service of every booking belong to the booking's
\* salon, after creation and after any reschedule; and no request of a staff
\* member changes the bookedCount of a slot of a salon they are not a member
\* of.
C34_BookingStaysInItsSalon ==
  /\ [](\A b \in Existing :
          /\ slotSalon[bookings[b].slotId] = bookings[b].salonId
          /\ serviceSalon[bookings[b].serviceId] = bookings[b].salonId)
  /\ [][\A a \in TenantStaff, t \in TenantSlots :
          (slots'[t].bookedCount # slots[t].bookedCount /\ StaffRequest(a))
            => slotSalon[t] \in MemberSalons(a)]_vars

\* C35: a delete-slot request addressed to salon A by an actor who is salon
\* admin of A only removes no slot of another salon.
C35_DeleteStaysInThePathSalon ==
  [][\A t \in TenantSlots :
       (t \in slotDeleted' /\ t \notin slotDeleted)
         => slotSalon[t] = req[Server].salonId]_vars

====
